---- MODULE Spec2Model ----
(***************************************************************************)
(* A model of whitebox-aes-rs: the reference AES-128 primitive (aes-core), *)
(* the GF(2) matrix and affine-encoding library, the white-box instance    *)
(* generator (wbaes-gen), the table evaluator and the instance reader.     *)
(*                                                                         *)
(* Conventions.  A Rust array of length n is modelled as a function on     *)
(* 0..n-1, so that indices are those of the source.  A byte is a number in *)
(* 0..255.  A row of a Matrix256 ([u64; 4] in the source) is modelled as   *)
(* the set of the column numbers 0..255 whose bit is set: column c is bit  *)
(* c % 64 of segment c \div 64.  A Table16x256 of a generated round is     *)
(* modelled by the values build_round stores into it (see table_value):    *)
(* the 32 * 65536 entries of a round are never enumerated.                 *)
(***************************************************************************)
EXTENDS Integers, Sequences, FiniteSets, TLC

-----------------------------------------------------------------------------
(* Local bindings, arrays and loops *)

\* The value itself.  The comparison makes the model checker compute all of
\* it once, here, instead of at each later use.
Force(v) == IF v = v THEN v ELSE v

\* let x = v; In(x): the binding is computed before the body runs.
Let(v, In(_)) == IF v = v THEN In(v) ELSE v

\* The array of length n whose element i is F(i).
Array(n, F(_)) == Force([k \in 0..(n - 1) |-> F(k)])

\* Element i of a literal tuple (tuples are indexed from 1).
At(t, i) == t[i + 1]

\* a[from..from + n] as an array of its own
Slice(a, from, n) == Force([k \in 0..(n - 1) |-> a[from + k]])

\* the elements of a (length na) followed by those of b (length nb)
Concat(a, na, b, nb) ==
    Force([k \in 0..(na + nb - 1) |-> IF k < na THEN a[k] ELSE b[k - na]])

\* Length of an array, and the array with one more element.
Len0(a) == Cardinality(DOMAIN a)

Push(a, v) == Force([k \in 0..Len0(a) |-> IF k < Len0(a) THEN a[k] ELSE v])

\* for i in lo..hi { acc = Op(acc, i) }, folded by halves so that the depth of
\* the evaluation stays logarithmic; the test on `first` only fixes the order
\* of evaluation (the first half is computed before the second starts).
RECURSIVE FoldRange(_, _, _, _)
FoldRange(Op(_, _), acc, lo, hi) ==
    IF hi <= lo THEN acc
    ELSE IF hi = lo + 1 THEN Op(acc, lo)
    ELSE LET mid == (lo + hi) \div 2
             first == FoldRange(Op, acc, lo, mid)
         IN IF {first} # {} THEN FoldRange(Op, first, mid, hi) ELSE first

None == [none |-> TRUE]

-----------------------------------------------------------------------------
(* Bytes: u8 arithmetic *)

Byte == 0..255

\* bit j of a ^ b and of a & b, for 4-bit a and b
NibbleXorBit(a, b, j) == ((a \div (2^j)) + (b \div (2^j))) % 2

NibbleAndBit(a, b, j) == ((a \div (2^j)) % 2) * ((b \div (2^j)) % 2)

NibbleXor ==
    Force([a \in 0..15 |-> [b \in 0..15 |->
        NibbleXorBit(a, b, 0) + 2 * NibbleXorBit(a, b, 1)
        + 4 * NibbleXorBit(a, b, 2) + 8 * NibbleXorBit(a, b, 3)]])

NibbleAnd ==
    Force([a \in 0..15 |-> [b \in 0..15 |->
        NibbleAndBit(a, b, 0) + 2 * NibbleAndBit(a, b, 1)
        + 4 * NibbleAndBit(a, b, 2) + 8 * NibbleAndBit(a, b, 3)]])

XorTable ==
    Force([a \in Byte |-> [b \in Byte |->
        16 * NibbleXor[a \div 16][b \div 16] + NibbleXor[a % 16][b % 16]]])

AndTable ==
    Force([a \in Byte |-> [b \in Byte |->
        16 * NibbleAnd[a \div 16][b \div 16] + NibbleAnd[a % 16][b % 16]]])

\* a ^ b and a & b on u8
Xor8(a, b) == XorTable[a][b]

And8(a, b) == AndTable[a][b]

Pow2 == <<1, 2, 4, 8, 16, 32, 64, 128>>

\* (v >> j) & 1
BitOf(v, j) == (v \div At(Pow2, j)) % 2

\* v.count_ones() & 1
ParityTable ==
    Force([v \in Byte |->
        (BitOf(v, 0) + BitOf(v, 1) + BitOf(v, 2) + BitOf(v, 3)
         + BitOf(v, 4) + BitOf(v, 5) + BitOf(v, 6) + BitOf(v, 7)) % 2])

Parity8(v) == ParityTable[v]

\* dst[k] ^= src[k] for every k (block.rs xor_in_place and its 32-byte twins)
XorBytes(a, b, n) == Force([k \in 0..(n - 1) |-> Xor8(a[k], b[k])])

Zeros(n) == [k \in 0..(n - 1) |-> 0]

-----------------------------------------------------------------------------
(* aes-core: S-box, round transformations, key schedule, block cipher *)

SBOX_TABLE ==
  <<
    99, 124, 119, 123, 242, 107, 111, 197, 48, 1, 103, 43, 254, 215, 171, 118,
    202, 130, 201, 125, 250, 89, 71, 240, 173, 212, 162, 175, 156, 164, 114, 192,
    183, 253, 147, 38, 54, 63, 247, 204, 52, 165, 229, 241, 113, 216, 49, 21,
    4, 199, 35, 195, 24, 150, 5, 154, 7, 18, 128, 226, 235, 39, 178, 117,
    9, 131, 44, 26, 27, 110, 90, 160, 82, 59, 214, 179, 41, 227, 47, 132,
    83, 209, 0, 237, 32, 252, 177, 91, 106, 203, 190, 57, 74, 76, 88, 207,
    208, 239, 170, 251, 67, 77, 51, 133, 69, 249, 2, 127, 80, 60, 159, 168,
    81, 163, 64, 143, 146, 157, 56, 245, 188, 182, 218, 33, 16, 255, 243, 210,
    205, 12, 19, 236, 95, 151, 68, 23, 196, 167, 126, 61, 100, 93, 25, 115,
    96, 129, 79, 220, 34, 42, 144, 136, 70, 238, 184, 20, 222, 94, 11, 219,
    224, 50, 58, 10, 73, 6, 36, 92, 194, 211, 172, 98, 145, 149, 228, 121,
    231, 200, 55, 109, 141, 213, 78, 169, 108, 86, 244, 234, 101, 122, 174, 8,
    186, 120, 37, 46, 28, 166, 180, 198, 232, 221, 116, 31, 75, 189, 139, 138,
    112, 62, 181, 102, 72, 3, 246, 14, 97, 53, 87, 185, 134, 193, 29, 158,
    225, 248, 152, 17, 105, 217, 142, 148, 155, 30, 135, 233, 206, 85, 40, 223,
    140, 161, 137, 13, 191, 230, 66, 104, 65, 153, 45, 15, 176, 84, 187, 22
  >>

\* The FIPS-197 forward S-box (aes-core's sbox module).
sbox(v) == At(SBOX_TABLE, v)

INV_SBOX_TABLE ==
    <<    82,   9, 106, 213,  48,  54, 165,  56, 191,  64, 163, 158, 129, 243, 215, 251,
       124, 227,  57, 130, 155,  47, 255, 135,  52, 142,  67,  68, 196, 222, 233, 203,
        84, 123, 148,  50, 166, 194,  35,  61, 238,  76, 149,  11,  66, 250, 195,  78,
         8,  46, 161, 102,  40, 217,  36, 178, 118,  91, 162,  73, 109, 139, 209,  37,
       114, 248, 246, 100, 134, 104, 152,  22, 212, 164,  92, 204,  93, 101, 182, 146,
       108, 112,  72,  80, 253, 237, 185, 218,  94,  21,  70,  87, 167, 141, 157, 132,
       144, 216, 171,   0, 140, 188, 211,  10, 247, 228,  88,   5, 184, 179,  69,   6,
       208,  44,  30, 143, 202,  63,  15,   2, 193, 175, 189,   3,   1,  19, 138, 107,
        58, 145,  17,  65,  79, 103, 220, 234, 151, 242, 207, 206, 240, 180, 230, 115,
       150, 172, 116,  34, 231, 173,  53, 133, 226, 249,  55, 232,  28, 117, 223, 110,
        71, 241,  26, 113,  29,  41, 197, 137, 111, 183,  98,  14, 170,  24, 190,  27,
       252,  86,  62,  75, 198, 210, 121,  32, 154, 219, 192, 254, 120, 205,  90, 244,
        31, 221, 168,  51, 136,   7, 199,  49, 177,  18,  16,  89,  39, 128, 236,  95,
        96,  81, 127, 169,  25, 181,  74,  13,  45, 229, 122, 159, 147, 201, 156, 239,
       160, 224,  59,  77, 174,  42, 245, 176, 200, 235, 187,  60, 131,  83, 153,  97,
        23,  43,   4, 126, 186, 119, 214,  38, 225, 105,  20,  99,  85,  33,  12, 125 >>

\* The inverse S-box.
inv_sbox(v) == At(INV_SBOX_TABLE, v)

sub_bytes(state) == Force([k \in 0..15 |-> sbox(state[k])])

inv_sub_bytes(state) == Force([k \in 0..15 |-> inv_sbox(state[k])])

\* tmp[k] = state[SHIFT_ROWS_SRC[k]]
SHIFT_ROWS_SRC == <<0, 5, 10, 15, 4, 9, 14, 3, 8, 13, 2, 7, 12, 1, 6, 11>>

shift_rows(state) == Force([k \in 0..15 |-> state[At(SHIFT_ROWS_SRC, k)]])

INV_SHIFT_ROWS_SRC == <<0, 13, 10, 7, 4, 1, 14, 11, 8, 5, 2, 15, 12, 9, 6, 3>>

inv_shift_rows(state) == Force([k \in 0..15 |-> state[At(INV_SHIFT_ROWS_SRC, k)]])

\* byte << 1 in u8, xor 0x1b when the top bit was set
xtime(byte) ==
    IF And8(byte, 128) # 0 THEN Xor8((2 * byte) % 256, 27) ELSE (2 * byte) % 256

\* the loop of gmul, `left` iterations to go
RECURSIVE gmul_loop(_, _, _, _)
gmul_loop(a, b, product, left) ==
    IF left = 0 THEN product
    ELSE LET p1 == IF And8(b, 1) # 0 THEN Xor8(product, a) ELSE product
             hi_bit_set == And8(a, 128)
             a1 == (2 * a) % 256
             a2 == IF hi_bit_set # 0 THEN Xor8(a1, 27) ELSE a1
         IN IF a2 + p1 >= 0 THEN gmul_loop(a2, b \div 2, p1, left - 1) ELSE 0

gmul(a, b) == IF a + b >= 0 THEN gmul_loop(a, b, 0, 8) ELSE 0

\* The four output bytes of mix_single_column from its four input bytes.
mix_single_column_of(a0, a1, a2, a3) ==
    Slice(<< Xor8(Xor8(xtime(a0), Xor8(xtime(a1), a1)), Xor8(a2, a3)),
             Xor8(Xor8(a0, xtime(a1)), Xor8(Xor8(xtime(a2), a2), a3)),
             Xor8(Xor8(a0, a1), Xor8(xtime(a2), Xor8(xtime(a3), a3))),
             Xor8(Xor8(Xor8(xtime(a0), a0), a1), Xor8(a2, xtime(a3))) >>, 1, 4)

mix_single_column(col) == mix_single_column_of(col[0], col[1], col[2], col[3])

inv_mix_single_column_of(a0, a1, a2, a3) ==
    Slice(<< Xor8(Xor8(gmul(a0, 14), gmul(a1, 11)), Xor8(gmul(a2, 13), gmul(a3, 9))),
             Xor8(Xor8(gmul(a0, 9), gmul(a1, 14)), Xor8(gmul(a2, 11), gmul(a3, 13))),
             Xor8(Xor8(gmul(a0, 13), gmul(a1, 9)), Xor8(gmul(a2, 14), gmul(a3, 11))),
             Xor8(Xor8(gmul(a0, 11), gmul(a1, 13)), Xor8(gmul(a2, 9), gmul(a3, 14))) >>, 1, 4)

\* inv_mix_single_column with the forward coefficients (2, 3, 1, 1).
inv_mix_single_column_forward(col) == mix_single_column(col)

inv_mix_single_column(col) == inv_mix_single_column_of(col[0], col[1], col[2], col[3])

\* for c in 0..4: column c is state[4c..4c+4], written back in place
mix_columns(state) ==
    Let([c \in 0..3 |-> mix_single_column(Slice(state, 4 * c, 4))],
        LAMBDA columns : [k \in 0..15 |-> columns[k \div 4][k % 4]])

inv_mix_columns(state) ==
    Let([c \in 0..3 |-> inv_mix_single_column(Slice(state, 4 * c, 4))],
        LAMBDA columns : [k \in 0..15 |-> columns[k \div 4][k % 4]])

add_round_key(state, round_key) == XorBytes(state, round_key, 16)

RCON == <<1, 2, 4, 8, 16, 32, 64, 128, 27, 54>>

\* A u32 word of the key schedule is modelled by its four big-endian bytes
\* (u32_from_be / be_from_u32): byte 0 is word >> 24, byte 3 is word as u8.
rot_word(word) == [k \in 0..3 |-> word[(k + 1) % 4]]

sub_word(word) == [k \in 0..3 |-> sbox(word[k])]

\* temp of expand_key for word i, from w[i - 1]
expand_key_temp(last, i) ==
    IF i % 4 = 0
    THEN Let(sub_word(rot_word(last)),
             LAMBDA s : [k \in 0..3 |->
                 IF k = 0 THEN Xor8(s[0], At(RCON, (i \div 4) - 1)) ELSE s[k]])
    ELSE last

\* The words w[0..43] of the key schedule; `w` holds w[0..i-1].
expand_key_words(key) ==
    FoldRange(LAMBDA w, i : Push(w, XorBytes(w[i - 4], expand_key_temp(w[i - 1], i), 4)),
              Force([i \in 0..3 |-> Slice(key, 4 * i, 4)]), 4, 44)

\* RoundKeys: 11 round keys of 16 bytes.
expand_key(key) ==
    Let(expand_key_words(key),
        LAMBDA w : [round \in 0..10 |-> [k \in 0..15 |-> w[4 * round + (k \div 4)][k % 4]]])

encrypt_block(block, round_keys) ==
    Let(FoldRange(LAMBDA state, r :
                      add_round_key(mix_columns(shift_rows(sub_bytes(state))),
                                    round_keys[r]),
                  add_round_key(block, round_keys[0]), 1, 10),
        LAMBDA s9 : add_round_key(shift_rows(sub_bytes(s9)), round_keys[10]))

\* for round in (1..10).rev(): step k of the fold is round 9 - k
decrypt_block(block, round_keys) ==
    Let(FoldRange(LAMBDA state, k :
                      inv_mix_columns(add_round_key(inv_sub_bytes(inv_shift_rows(state)),
                                                    round_keys[9 - k])),
                  add_round_key(block, round_keys[10]), 0, 9),
        LAMBDA s9 : add_round_key(inv_sub_bytes(inv_shift_rows(s9)), round_keys[0]))

(***************************************************************************)
(* wbaes-gen/src/matrix.rs: GF(2) matrices.                                *)
(* A Matrix8 is its `rows` array: 8 bytes, bit j of rows[i] is entry (i,j).*)
(* A Matrix256 is its `rows` array: 256 rows, each the set of the columns  *)
(* whose bit is set in the four u64 words (column c is bit c % 64 of word  *)
(* c \div 64); XOR of two rows is their symmetric difference.              *)
(***************************************************************************)
BITS == Force([v \in Byte |-> {j \in 0..7 : BitOf(v, j) = 1}])

\* The byte whose set bits are the members of s.
ByteOfBits(s) ==
    (IF 0 \in s THEN 1 ELSE 0) + (IF 1 \in s THEN 2 ELSE 0)
  + (IF 2 \in s THEN 4 ELSE 0) + (IF 3 \in s THEN 8 ELSE 0)
  + (IF 4 \in s THEN 16 ELSE 0) + (IF 5 \in s THEN 32 ELSE 0)
  + (IF 6 \in s THEN 64 ELSE 0) + (IF 7 \in s THEN 128 ELSE 0)

RowXor(a, b) == (a \ b) \cup (b \ a)

Matrix8_zero == Zeros(8)

Matrix8_identity == [i \in 0..7 |-> At(Pow2, i)]

Matrix8_apply(m, value) ==
    ByteOfBits({row_idx \in 0..7 : Parity8(And8(m[row_idx], value)) = 1})

\* mul with the operands exchanged: rhs.mul(m).
Matrix8_mul_reversed(m, rhs) ==
    Array(8, LAMBDA row_idx :
        FoldRange(LAMBDA acc, bit :
                      IF bit \in BITS[rhs[row_idx]] THEN Xor8(acc, m[bit]) ELSE acc,
                  0, 0, 8))

Matrix8_mul(m, rhs) ==
    Array(8, LAMBDA row_idx :
        FoldRange(LAMBDA acc, bit :
                      IF bit \in BITS[m[row_idx]] THEN Xor8(acc, rhs[bit]) ELSE acc,
                  0, 0, 8))

\* The elimination without the swap of the pivot row into place.
Matrix8_eliminate_without_swap(st, col, pivot) ==
    [left  |-> [row \in 0..7 |->
                   IF row # col /\ BitOf(st.left[row], col) = 1
                   THEN Xor8(st.left[row], st.left[col]) ELSE st.left[row]],
     right |-> [row \in 0..7 |->
                   IF row # col /\ BitOf(st.left[row], col) = 1
                   THEN Xor8(st.right[row], st.right[col]) ELSE st.right[row]]]

\* The elimination of one column once its pivot row is known: the swap, then
\* the XOR of the pivot row into every other row that has the bit.
Matrix8_eliminate(st, col, pivot) ==
    Let([left  |-> [st.left EXCEPT ![pivot] = st.left[col], ![col] = st.left[pivot]],
         right |-> [st.right EXCEPT ![pivot] = st.right[col], ![col] = st.right[pivot]]],
        LAMBDA sw :
            [left  |-> [row \in 0..7 |->
                           IF row # col /\ BitOf(sw.left[row], col) = 1
                           THEN Xor8(sw.left[row], sw.left[col]) ELSE sw.left[row]],
             right |-> [row \in 0..7 |->
                           IF row # col /\ BitOf(sw.left[row], col) = 1
                           THEN Xor8(sw.right[row], sw.right[col]) ELSE sw.right[row]]])

\* One column that is passed over when it has no pivot.
Matrix8_invert_col_without_failure(st, col) ==
    IF \A r \in col..7 : BitOf(st.left[r], col) = 0 THEN st
    ELSE Matrix8_eliminate(st, col,
             CHOOSE r \in col..7 :
                 /\ BitOf(st.left[r], col) = 1
                 /\ \A q \in col..(r - 1) : BitOf(st.left[q], col) = 0)

\* One column of the elimination on [left, right]; None once a pivot is missing.
Matrix8_invert_col(st, col) ==
    IF st = None THEN None
    ELSE IF \A r \in col..7 : BitOf(st.left[r], col) = 0 THEN None
    ELSE Matrix8_eliminate(st, col,
             CHOOSE r \in col..7 :
                 /\ BitOf(st.left[r], col) = 1
                 /\ \A q \in col..(r - 1) : BitOf(st.left[q], col) = 0)

Matrix8_invert(m) ==
    Let(FoldRange(Matrix8_invert_col, [left |-> m, right |-> Matrix8_identity], 0, 8),
        LAMBDA st : IF st = None THEN None ELSE st.right)

Matrix8_is_invertible(m) == Matrix8_invert(m) # None

Idx256 == 0..255

Matrix256_zero == Force([r \in Idx256 |-> {}])

Matrix256_identity == Force([r \in Idx256 |-> {r}])

Matrix256_bit(m, row, col) == col \in m[row]

\* Row `row` of the row block after clear_block and the set_bit calls of
\* set_block: it loses the columns of the column block and gains the block's bits.
Matrix256_set_block_row(m, row_block, col_block, block, row) ==
    (m[row_block * 8 + row] \ ((col_block * 8)..(col_block * 8 + 7)))
        \cup {col_block * 8 + bit : bit \in BITS[block[row]]}

Matrix256_set_block(m, row_block, col_block, block) ==
    Force([r \in Idx256 |->
        IF r \div 8 = row_block
        THEN Matrix256_set_block_row(m, row_block, col_block, block, r % 8)
        ELSE m[r]])

\* block with the bits of each row in the opposite order.
Matrix256_block_bits_reversed(m, row_block, col_block) ==
    Force([row_offset \in 0..7 |->
        ByteOfBits({bit \in 0..7 :
            Matrix256_bit(m, row_block * 8 + row_offset, col_block * 8 + 7 - bit)})])

Matrix256_block(m, row_block, col_block) ==
    Force([row_offset \in 0..7 |->
        ByteOfBits({bit \in 0..7 :
            Matrix256_bit(m, row_block * 8 + row_offset, col_block * 8 + bit)})])

Matrix256_mul(m, rhs) ==
    Array(256, LAMBDA row_idx :
        FoldRange(LAMBDA accum, source_row :
                      IF source_row \in m[row_idx] THEN RowXor(accum, rhs[source_row])
                      ELSE accum,
                  {}, 0, 256))

\* The elimination of one column once its pivot row is known.  `st` holds
\* the rows of left and right side by side: column c of left is c, column c
\* of right is 256 + c, so that one XOR of st[row] with st[col] is the
\* code's pair of XORs.
Matrix256_eliminate(st, col, pivot) ==
    Let([st EXCEPT ![pivot] = st[col], ![col] = st[pivot]],
        LAMBDA sw : [row \in Idx256 |->
                        IF row # col /\ col \in sw[row]
                        THEN RowXor(sw[row], sw[col]) ELSE sw[row]])

\* One column of the elimination; None once a pivot is missing.
Matrix256_invert_col(st, col) ==
    IF st = None THEN None
    ELSE IF \A r \in col..255 : col \notin st[r] THEN None
    ELSE Force(Matrix256_eliminate(st, col,
             CHOOSE r \in col..255 :
                 /\ col \in st[r]
                 /\ \A q \in col..(r - 1) : col \notin st[q]))

Matrix256_invert(m) ==
    Let(FoldRange(Matrix256_invert_col, [r \in Idx256 |-> m[r] \cup {256 + r}], 0, 256),
        LAMBDA st : IF st = None THEN None
                    ELSE [r \in Idx256 |-> {c - 256 : c \in {d \in st[r] : d >= 256}}])

Matrix256_is_invertible(m) == Matrix256_invert(m) # None

\* bytes_to_segments: bit b of byte k is bit 8k + b of the 256-bit vector.
bytes_to_segments(bytes) == UNION {{8 * k + b : b \in BITS[bytes[k]]} : k \in 0..31}

segments_to_bytes(segments) ==
    Force([k \in 0..31 |-> ByteOfBits({b \in 0..7 : (8 * k + b) \in segments})])

\* The rows whose parity with the input is odd.
Matrix256_apply_to_segments(m, input_segments) ==
    {row_idx \in Idx256 : Cardinality(m[row_idx] \cap input_segments) % 2 = 1}

Matrix256_apply_to_bytes(m, input) ==
    segments_to_bytes(Matrix256_apply_to_segments(m, bytes_to_segments(input)))

\* The 32-byte vector whose only set bit is bit i.
BasisVector(i) == [k \in 0..31 |-> IF k = i \div 8 THEN At(Pow2, i % 8) ELSE 0]

\* from_linear_transform: column i is f(e_i), e_i the i-th basis vector.
Matrix256_from_linear_transform(f(_)) ==
    Let([i \in Idx256 |-> bytes_to_segments(f(BasisVector(i)))],
        LAMBDA columns : [r \in Idx256 |-> {c \in Idx256 : r \in columns[c]}])

\* basis_outputs of submatrix_byte_map: the images of the 8 bits of one byte.
basis_outputs(m, byte_index) ==
    Force([bit \in 0..7 |-> Matrix256_apply_to_bytes(m, BasisVector(8 * byte_index + bit))])

\* map[value] from the low seven bits of value only.
byte_map_entry_seven_bits(basis, value) ==
    FoldRange(LAMBDA acc, bit :
                  IF bit \in BITS[value] THEN XorBytes(acc, basis[bit], 32) ELSE acc,
              Zeros(32), 0, 7)

\* map[value] of submatrix_byte_map, from the basis outputs.
byte_map_entry(basis, value) ==
    FoldRange(LAMBDA acc, bit :
                  IF bit \in BITS[value] THEN XorBytes(acc, basis[bit], 32) ELSE acc,
              Zeros(32), 0, 8)

Matrix256_submatrix_byte_map(m, byte_index) ==
    Let(basis_outputs(m, byte_index),
        LAMBDA basis : [value \in Byte |-> byte_map_entry(basis, value)])

(***************************************************************************)
(* wbaes-gen/src/linear.rs                                                 *)
(***************************************************************************)
\* apply_mc_sr without shift_rows.
apply_mc_only(state) == mix_columns(state)

apply_mc_sr(state) == mix_columns(shift_rows(state))

mc_sr_matrix_256 ==
    Matrix256_from_linear_transform(
        LAMBDA state : Concat(apply_mc_sr(Slice(state, 0, 16)), 16,
                              apply_mc_sr(Slice(state, 16, 16)), 16))

sr_matrix_256 ==
    Matrix256_from_linear_transform(
        LAMBDA state : Concat(shift_rows(Slice(state, 0, 16)), 16,
                              shift_rows(Slice(state, 16, 16)), 16))

(***************************************************************************)
(* The random number generator: a byte stream fixed by the seed, read at a *)
(* position.  next_u32 takes one 4-byte word, fill_bytes whole words.      *)
(***************************************************************************)
\* A negative seed stands for a generator that is stuck: every byte is 0.
RngByte(seed, pos) ==
    LET lo == pos % 4096
        hi == pos \div 4096
        v1 == (lo * 31 + hi * 17 + seed * 101 + 7) % 32749
        v2 == (v1 * v1 + 3 * lo + hi) % 32749
        v3 == (v2 * v2 + v1) % 32749
    IN IF seed < 0 THEN 0 ELSE v3 % 256

seeded_rng(seed) == [seed |-> seed, pos |-> 0]

stuck_rng == [seed |-> -1, pos |-> 0]

\* rng.next_u32() as u8
next_u32_as_u8(rng) == RngByte(rng.seed, rng.pos)

\* rng.fill_bytes(&mut [u8; 32])
fill_bytes(rng) == Force([k \in 0..31 |-> RngByte(rng.seed, rng.pos + k)])

Advance(rng, n) == [rng EXCEPT !.pos = @ + n]

\* Functions drawing from the generator return [val, rng]: the value and the
\* generator after the draw.
Matrix8_random(rng) ==
    [val |-> Force([row \in 0..7 |-> next_u32_as_u8(Advance(rng, 4 * row))]),
     rng |-> Advance(rng, 32)]

RECURSIVE Matrix8_random_invertible(_)
Matrix8_random_invertible(rng) ==
    Let(Matrix8_random(rng),
        LAMBDA candidate :
            IF Matrix8_is_invertible(candidate.val) THEN candidate
            ELSE Matrix8_random_invertible(candidate.rng))

\* The block set at (col_block, row_block).
Matrix256_with_block_transposed(mat, row_block, col_block, drawn) ==
    [val |-> Matrix256_set_block(mat, col_block, row_block, drawn.val), rng |-> drawn.rng]

\* `mat` with one more block set from a draw.
Matrix256_with_block(mat, row_block, col_block, drawn) ==
    [val |-> Matrix256_set_block(mat, row_block, col_block, drawn.val), rng |-> drawn.rng]

\* The body of the loop of Matrix256::random_sparse_unsplit: one candidate.
Matrix256_candidate(rng) ==
    Let(FoldRange(LAMBDA st, block :
                      Matrix256_with_block(st.val, block, block,
                                           Matrix8_random_invertible(st.rng)),
                  [val |-> Matrix256_zero, rng |-> rng], 0, 32),
        LAMBDA diag :
            Let(FoldRange(LAMBDA st, block :
                              Matrix256_with_block(st.val, block, block + 1,
                                                   Matrix8_random(st.rng)),
                          diag, 0, 31),
                LAMBDA super :
                    Matrix256_with_block(super.val, 31, 0, Matrix8_random(super.rng))))

\* The first candidate returned, invertible or not.
Matrix256_random_sparse_unsplit_first(rng, rejected) ==
    Let(Matrix256_candidate(rng),
        LAMBDA mat : [val |-> mat.val, rng |-> mat.rng, rejected |-> rejected])

\* The loop: candidates are drawn until one is invertible.  `rejected`
\* counts the candidates thrown away.
RECURSIVE Matrix256_random_sparse_unsplit_loop(_, _)
Matrix256_random_sparse_unsplit_loop(rng, rejected) ==
    Let(Matrix256_candidate(rng),
        LAMBDA mat :
            IF Matrix256_is_invertible(mat.val)
            THEN [val |-> mat.val, rng |-> mat.rng, rejected |-> rejected]
            ELSE Matrix256_random_sparse_unsplit_loop(mat.rng, rejected + 1))

Matrix256_random_sparse_unsplit(rng) == Matrix256_random_sparse_unsplit_loop(rng, 0)

(***************************************************************************)
(* wbaes-gen/src/affine.rs: Affine256 is [lin, bias], x |-> lin * x + bias.*)
(***************************************************************************)
Affine256_new(lin, bias) == [lin |-> lin, bias |-> bias]

Affine256_identity == Affine256_new(Matrix256_identity, Zeros(32))

xor_in_place(dst, src) == XorBytes(dst, src, 32)

Affine256_random_sparse_unsplit(rng) ==
    Let(Matrix256_random_sparse_unsplit(rng),
        LAMBDA lin : [val |-> Affine256_new(lin.val, fill_bytes(lin.rng)),
                      rng |-> Advance(lin.rng, 32),
                      rejected |-> lin.rejected])

Affine256_apply(a, value) == xor_in_place(Matrix256_apply_to_bytes(a.lin, value), a.bias)

\* invert with the bias carried over as it is, not through lin_inv.
Affine256_invert_bias_kept(a) ==
    Let(Matrix256_invert(a.lin),
        LAMBDA lin_inv :
            IF lin_inv = None THEN None
            ELSE Affine256_new(lin_inv, a.bias))

Affine256_invert(a) ==
    Let(Matrix256_invert(a.lin),
        LAMBDA lin_inv :
            IF lin_inv = None THEN None
            ELSE Affine256_new(lin_inv, Matrix256_apply_to_bytes(lin_inv, a.bias)))

\* compose without the bias of `self`.
Affine256_compose_without_self_bias(a, other) ==
    Affine256_new(Matrix256_mul(a.lin, other.lin),
                  Matrix256_apply_to_bytes(a.lin, other.bias))

Affine256_compose(a, other) ==
    Affine256_new(Matrix256_mul(a.lin, other.lin),
                  xor_in_place(a.bias, Matrix256_apply_to_bytes(a.lin, other.bias)))

\* Affine8 is [lin, bias], x |-> lin * x + bias on a byte.
Affine8_new(lin, bias) == [lin |-> lin, bias |-> bias]

Affine8_random(rng) ==
    Let(Matrix8_random_invertible(rng),
        LAMBDA lin : [val |-> Affine8_new(lin.val, next_u32_as_u8(lin.rng)),
                      rng |-> Advance(lin.rng, 4)])

Affine8_apply(a, value) == Xor8(Matrix8_apply(a.lin, value), a.bias)

\* invert with the bias carried over as it is.
Affine8_invert_bias_kept(a) ==
    Let(Matrix8_invert(a.lin),
        LAMBDA lin_inv : IF lin_inv = None THEN None ELSE Affine8_new(lin_inv, a.bias))

Affine8_invert(a) ==
    Let(Matrix8_invert(a.lin),
        LAMBDA lin_inv :
            IF lin_inv = None THEN None
            ELSE Affine8_new(lin_inv, Matrix8_apply(lin_inv, a.bias)))

\* compose with the bias of `other` taken as it is.
Affine8_compose_bias_not_mapped(a, other) ==
    Affine8_new(Matrix8_mul(a.lin, other.lin), Xor8(other.bias, a.bias))

Affine8_compose(a, other) ==
    Affine8_new(Matrix8_mul(a.lin, other.lin),
                Xor8(Matrix8_apply(a.lin, other.bias), a.bias))

(***************************************************************************)
(* wbaes-gen/src/tables.rs                                                 *)
(***************************************************************************)
ENTRY_BYTES == 32

ENTRIES == 65536

\* entry_index with x shifted by 4 bits only.
entry_index_short_shift(x, y) == x * 16 + y

entry_index(x, y) == x * 256 + y

\* HTable::random fills data[0..255], 32 bytes each, in order.  The table is
\* kept as the place of its bytes in the generator's stream.
HTable_random(rng) ==
    [val |-> [seed |-> rng.seed, from |-> rng.pos], rng |-> Advance(rng, 256 * ENTRY_BYTES)]

HTable_get(h, x) ==
    Force([k \in 0..(ENTRY_BYTES - 1) |-> RngByte(h.seed, h.from + x * ENTRY_BYTES + k)])

(***************************************************************************)
(* wbaes-gen/src/generator.rs                                              *)
(***************************************************************************)
\* duplicate_round_key that fills the first half only.
duplicate_round_key_first_half(round_key) == Concat(round_key, 16, Zeros(16), 16)

duplicate_round_key(round_key) == Concat(round_key, 16, round_key, 16)

\* split_biases that draws all 32 shares.
split_biases_all_drawn(rng, target) ==
    [val |-> Force([k \in 0..31 |-> fill_bytes(Advance(rng, ENTRY_BYTES * k))]),
     rng |-> Advance(rng, ENTRY_BYTES * 32)]

\* split_biases whose last share is the target itself.
split_biases_last_is_target(rng, target) ==
    [val |-> Force([k \in 0..31 |-> IF k = 31 THEN target
                                    ELSE fill_bytes(Advance(rng, ENTRY_BYTES * k))]),
     rng |-> Advance(rng, ENTRY_BYTES * 31)]

\* The first 31 shares are drawn; the last is the target XOR their sum.
split_biases(rng, target) ==
    Let([k \in 0..30 |-> fill_bytes(Advance(rng, ENTRY_BYTES * k))],
        LAMBDA drawn :
            [val |-> Push(drawn,
                          xor_in_place(target,
                                       FoldRange(LAMBDA accum, k : xor_in_place(accum, drawn[k]),
                                                 Zeros(32), 0, 31))),
             rng |-> Advance(rng, ENTRY_BYTES * 31)])

\* The value build_round stores at (x, y) of table i (the body of its two
\* inner loops).  `t` holds what the loop over i binds for that table.
table_value(t, x, y) ==
    xor_in_place(
        xor_in_place(
            xor_in_place(
                byte_map_entry(t.b_basis,
                    sbox(Xor8(Xor8(Matrix8_apply(t.block_left, x),
                                   Matrix8_apply(t.block_right, y)),
                              t.a_bias))),
                t.b_bias),
            HTable_get(t.h_i, x)),
        HTable_get(t.h_next, y))

\* A Table16x256 is the length of `data` (len) and its contents.  For the
\* tables build_round fills the contents are `fill`: the bindings from which
\* every entry is computed.  Else they are `data`, cut into the 32-byte
\* entries set and get address: entry idx is data[32 * idx .. 32 * idx + 32],
\* and an entry that was never written (all zero) is left out.
Table16x256_new_zeroed == [len |-> ENTRIES * ENTRY_BYTES, data |-> << >>]

\* set panics (None) when the slice start..start + 32 leaves `data`.
Table16x256_set(table, x, y, value) ==
    IF entry_index(x, y) * ENTRY_BYTES + ENTRY_BYTES > table.len THEN None
    ELSE [table EXCEPT !.data =
             [idx \in (DOMAIN table.data) \cup {entry_index(x, y)} |->
                 IF idx = entry_index(x, y) THEN value ELSE table.data[idx]]]

\* get panics (None) when the slice start..start + 32 leaves `data`.
Table16x256_get(table, x, y) ==
    IF entry_index(x, y) * ENTRY_BYTES + ENTRY_BYTES > table.len THEN None
    ELSE IF "fill" \in DOMAIN table THEN table_value(table.fill, x, y)
    ELSE IF entry_index(x, y) \in DOMAIN table.data THEN table.data[entry_index(x, y)]
    ELSE Zeros(ENTRY_BYTES)

\* std::array::from_fn(|_| HTable::random(rng)): 32 tables drawn in order.
h_tables_random(rng) ==
    FoldRange(LAMBDA st, k : [val |-> Push(st.val, HTable_random(st.rng).val),
                              rng |-> HTable_random(st.rng).rng],
              [val |-> <<>>, rng |-> rng], 0, 32)

\* The loop over i with h[i] as the mask of y too.
round_tables_filled_same_mask(a_curr, b_lin, b_biases, h_tables) ==
    [tables |-> Force([i \in 0..31 |->
        [len  |-> ENTRIES * ENTRY_BYTES,
         fill |-> [block_left  |-> Matrix256_block(a_curr.lin, i, i),
                   block_right |-> IF i = 31 THEN Matrix256_block(a_curr.lin, i, 0)
                                   ELSE Matrix256_block(a_curr.lin, i, i + 1),
                   a_bias      |-> a_curr.bias[i],
                   b_bias      |-> b_biases[i],
                   h_i         |-> h_tables[i],
                   h_next      |-> h_tables[i],
                   b_basis     |-> basis_outputs(b_lin, i)]]])]

\* The loop over i of build_round: table i, from what the loop binds.
round_tables_filled(a_curr, b_lin, b_biases, h_tables) ==
    [tables |-> Force([i \in 0..31 |->
        [len  |-> ENTRIES * ENTRY_BYTES,
         fill |-> [block_left  |-> Matrix256_block(a_curr.lin, i, i),
                   block_right |-> IF i = 31 THEN Matrix256_block(a_curr.lin, i, 0)
                                   ELSE Matrix256_block(a_curr.lin, i, i + 1),
                   a_bias      |-> a_curr.bias[i],
                   b_bias      |-> b_biases[i],
                   h_i         |-> h_tables[i],
                   h_next      |-> h_tables[(i + 1) % 32],
                   b_basis     |-> basis_outputs(b_lin, i)]]])]

\* build_round once next_inv is known.  `draws` records the two draws it
\* makes and the stream positions they took.
build_round_with(rng, a_curr, next_affine, linear_layer, round_key_block, next_inv) ==
    Let(split_biases(rng,
                     xor_in_place(Matrix256_apply_to_bytes(next_inv, next_affine.bias),
                                  Matrix256_apply_to_bytes(next_inv, round_key_block))),
        LAMBDA b_biases :
            Let(h_tables_random(b_biases.rng),
                LAMBDA h_tables :
                    [val |-> round_tables_filled(a_curr,
                                                 Matrix256_mul(next_inv, linear_layer),
                                                 b_biases.val, h_tables.val),
                     rng |-> h_tables.rng,
                     draws |-> << [what |-> "bias", from |-> rng.pos,
                                   to |-> b_biases.rng.pos],
                                  [what |-> "H", from |-> b_biases.rng.pos,
                                   to |-> h_tables.rng.pos] >>]))

\* build_round; None is the panic of `expect` on a singular next_affine.
build_round(rng, a_curr, next_affine, linear_layer, round_key_block) ==
    Let(Matrix256_invert(next_affine.lin),
        LAMBDA next_inv :
            IF next_inv = None THEN None
            ELSE build_round_with(rng, a_curr, next_affine, linear_layer,
                                  round_key_block, next_inv))

(***************************************************************************)
(* wbaes-gen/src/instance.rs                                               *)
(***************************************************************************)
InstanceParams_default ==
    [rounds |-> 10, block_bytes |-> 32, table_input_bits |-> 16,
     table_output_bits |-> 256, ma_bits |-> 256,
     scheme |-> "BaekCheonHong2016", version |-> 1]

(***************************************************************************)
(* wbaes-runtime: WbCipher256, the evaluator of an instance.               *)
(***************************************************************************)
\* acc ^= v, unless a lookup has panicked (None).
WbXor(acc, v) == IF acc = None \/ v = None THEN None ELSE xor_in_place(acc, v)

\* One round: the XOR of the 32 table lookups; None if a lookup panics.
WbRound(round_tables, S) ==
    FoldRange(LAMBDA acc, i :
                  WbXor(acc, Table16x256_get(round_tables.tables[i], S[i], S[(i + 1) % 32])),
              Zeros(32), 0, 32)

WbInput(instance, P) == Affine256_apply(instance.encodings.input, P)

WbOutput(instance, S) ==
    IF S = None \/ instance.encodings.output = None THEN S
    ELSE Affine256_apply(instance.encodings.output, S)

\* The evaluation of one block by one caller.
WbCipher256_encrypt_block(instance, P) ==
    WbOutput(instance,
             FoldRange(LAMBDA S, r : IF S = None THEN None
                                     ELSE WbRound(instance.rounds[r], S),
                       WbInput(instance, P), 0, 10))

(***************************************************************************)
(* Generator::generate_instance, cut at its loops.  `g` is the generator   *)
(* (rng, config), the argument (key), the local variables of the call, its *)
(* position (pc, r) and the instance it returns.  `draws` records, for     *)
(* every draw from the generator, what was drawn and the stream positions  *)
(* [from, to) it took.                                                     *)
(***************************************************************************)
Draw(what, idx, before, after) ==
    [what |-> what, idx |-> idx, from |-> before.pos, to |-> after.pos]

WithIdx(d, idx) == [what |-> d.what, idx |-> idx, from |-> d.from, to |-> d.to]

\* Generator::with_config(seeded_rng(seed), config), before generate_instance(key).
Generator_with_config(seed, external_encodings, key) ==
    [pc |-> "start", r |-> 0,
     rng |-> seeded_rng(seed), config |-> [external_encodings |-> external_encodings],
     key |-> key,
     round_keys |-> None, mc_sr |-> None, sr_only |-> None, key0_affine |-> None,
     a_encodings |-> <<>>, rejected |-> 0,
     min_encoding |-> None, mout_encoding |-> None,
     input_encoding |-> None, rounds |-> <<>>,
     instance |-> None, draws |-> <<>>]

\* lines 48-53
generate_instance_begin(g) ==
    Let(expand_key(g.key),
        LAMBDA round_keys :
            [g EXCEPT !.round_keys = round_keys,
                      !.mc_sr = mc_sr_matrix_256,
                      !.sr_only = sr_matrix_256,
                      !.key0_affine = Affine256_new(Matrix256_identity,
                                                    duplicate_round_key(round_keys[0])),
                      !.pc = "a_encodings"])

\* lines 55-58, one iteration
generate_instance_push_a(g) ==
    Let(Affine256_random_sparse_unsplit(g.rng),
        LAMBDA a :
            [g EXCEPT !.a_encodings = Push(g.a_encodings, a.val),
                      !.rng = a.rng,
                      !.rejected = @ + a.rejected,
                      !.draws = Append(@, Draw("A", Len0(g.a_encodings) + 1, g.rng, a.rng)),
                      !.pc = IF Len0(g.a_encodings) + 1 = 10 THEN "external"
                             ELSE "a_encodings"])

\* lines 60-67 with external encodings: M_in, then M_out
generate_instance_external_random(g, min) ==
    Let(Affine256_random_sparse_unsplit(min.rng),
        LAMBDA mout :
            [g EXCEPT !.min_encoding = min.val,
                      !.mout_encoding = mout.val,
                      !.rng = mout.rng,
                      !.rejected = @ + min.rejected + mout.rejected,
                      !.draws = @ \o << Draw("M_in", 0, g.rng, min.rng),
                                        Draw("M_out", 0, min.rng, mout.rng) >>,
                      !.pc = "input"])

\* lines 60-67
generate_instance_external(g) ==
    IF g.config.external_encodings
    THEN generate_instance_external_random(g, Affine256_random_sparse_unsplit(g.rng))
    ELSE [g EXCEPT !.min_encoding = Affine256_identity,
                   !.mout_encoding = None,
                   !.pc = "input"]

\* lines 69-71
generate_instance_input(g) ==
    Let(Affine256_invert(g.a_encodings[0]),
        LAMBDA a1_inv :
            IF a1_inv = None THEN [g EXCEPT !.pc = "panic"]
            ELSE [g EXCEPT !.input_encoding =
                               Affine256_compose(a1_inv,
                                   Force(Affine256_compose(g.min_encoding, g.key0_affine))),
                           !.pc = "rounds", !.r = 0])

\* next_affine that leaves M_out out of round 10.
next_affine_without_output(g, r) ==
    IF r = 9 THEN Affine256_identity ELSE g.a_encodings[r + 1]

\* next_affine of round r (lines 76-81)
next_affine_of(g, r) ==
    IF r = 9
    THEN (IF g.mout_encoding # None THEN g.mout_encoding ELSE Affine256_identity)
    ELSE g.a_encodings[r + 1]

\* One iteration that hands round key r, not r + 1, to build_round.
generate_instance_round_key_of_r(g) ==
    Let(build_round(g.rng, g.a_encodings[g.r], next_affine_of(g, g.r),
                    IF g.r = 9 THEN g.sr_only ELSE g.mc_sr,
                    duplicate_round_key(g.round_keys[g.r])),
        LAMBDA round_tables :
            IF round_tables = None THEN [g EXCEPT !.pc = "panic"]
            ELSE [g EXCEPT !.rounds = Push(g.rounds, round_tables.val),
                           !.rng = round_tables.rng,
                           !.draws = @ \o << WithIdx(round_tables.draws[1], g.r),
                                             WithIdx(round_tables.draws[2], g.r) >>,
                           !.r = g.r + 1,
                           !.pc = IF g.r + 1 = 10 THEN "return" ELSE "rounds"])

\* lines 73-92, one iteration
generate_instance_round(g) ==
    Let(build_round(g.rng, g.a_encodings[g.r], next_affine_of(g, g.r),
                    IF g.r = 9 THEN g.sr_only ELSE g.mc_sr,
                    duplicate_round_key(g.round_keys[g.r + 1])),
        LAMBDA round_tables :
            IF round_tables = None THEN [g EXCEPT !.pc = "panic"]
            ELSE [g EXCEPT !.rounds = Push(g.rounds, round_tables.val),
                           !.rng = round_tables.rng,
                           !.draws = @ \o << WithIdx(round_tables.draws[1], g.r),
                                             WithIdx(round_tables.draws[2], g.r) >>,
                           !.r = g.r + 1,
                           !.pc = IF g.r + 1 = 10 THEN "return" ELSE "rounds"])

\* The return with M_out stored as the output encoding.
generate_instance_return_with_output(g) ==
    [g EXCEPT !.instance = [rounds |-> g.rounds,
                            encodings |-> [input |-> g.input_encoding,
                                           output |-> g.mout_encoding],
                            params |-> InstanceParams_default],
              !.pc = "done"]

\* lines 94-105
generate_instance_return(g) ==
    [g EXCEPT !.instance = [rounds |-> g.rounds,
                            encodings |-> [input |-> g.input_encoding, output |-> None],
                            params |-> InstanceParams_default],
              !.pc = "done"]

(***************************************************************************)
(* WbInstance256::to_bytes / from_bytes (bincode).  A blob is kept as its  *)
(* fields in the order bincode writes them: integers as little-endian      *)
(* bytes (u32: 4, usize and lengths: 8), an enum as the u32 index of its   *)
(* variant, an Option as a tag byte, a boxed slice as its length followed  *)
(* by `avail` bytes of data.                                               *)
(***************************************************************************)
POW256 == << 1, 256, 65536, 16777216 >>

\* n as `width` bytes, the most significant first.
LE_most_significant_first(n, width) ==
    Force([k \in 0..(width - 1) |->
              IF width - 1 - k < 4 THEN (n \div At(POW256, width - 1 - k)) % 256 ELSE 0])

\* n as `width` little-endian bytes (n < 2^31).
LE(n, width) ==
    Force([k \in 0..(width - 1) |-> IF k < 4 THEN (n \div At(POW256, k)) % 256 ELSE 0])

\* The number held by little-endian bytes; -1 stands for one of 2^31 or more.
FromLE(bytes, width) ==
    IF bytes[3] >= 128 \/ \E k \in 4..(width - 1) : bytes[k] # 0 THEN -1
    ELSE bytes[0] + 256 * bytes[1] + 65536 * bytes[2] + 16777216 * bytes[3]

\* enum SchemeId, in declaration order.
SchemeId == << "BaekCheonHong2016" >>

SchemeIndex(scheme) == CHOOSE k \in 0..(Len(SchemeId) - 1) : At(SchemeId, k) = scheme

Ok(v) == [ok |-> TRUE, val |-> v]

Err(e) == [ok |-> FALSE, err |-> e]

\* Table16x256 { data: Box<[u8]> }: the length, then the bytes.
Table16x256_to_bytes(t) == [len |-> LE(t.len, 8), avail |-> t.len, fill |-> t.fill]

InstanceParams_to_bytes(p) ==
    [rounds            |-> LE(p.rounds, 8),
     block_bytes       |-> LE(p.block_bytes, 8),
     table_input_bits  |-> LE(p.table_input_bits, 4),
     table_output_bits |-> LE(p.table_output_bits, 4),
     ma_bits           |-> LE(p.ma_bits, 4),
     scheme            |-> LE(SchemeIndex(p.scheme), 4),
     version           |-> LE(p.version, 4)]

to_bytes(instance) ==
    Ok([rounds |-> [r \in 0..9 |-> [i \in 0..31 |->
                       Table16x256_to_bytes(instance.rounds[r].tables[i])]],
        input  |-> instance.encodings.input,
        output |-> IF instance.encodings.output = None THEN [tag |-> 0]
                   ELSE [tag |-> 1, some |-> instance.encodings.output],
        params |-> InstanceParams_to_bytes(instance.params)])

\* A boxed slice whose length runs past the data that is there.
Table16x256_short(t) == FromLE(t.len, 8) < 0 \/ FromLE(t.len, 8) > t.avail

Table16x256_from_bytes(t) == [len |-> FromLE(t.len, 8), fill |-> t.fill]

InstanceParams_from_bytes(p) ==
    [rounds            |-> FromLE(p.rounds, 8),
     block_bytes       |-> FromLE(p.block_bytes, 8),
     table_input_bits  |-> FromLE(p.table_input_bits, 4),
     table_output_bits |-> FromLE(p.table_output_bits, 4),
     ma_bits           |-> FromLE(p.ma_bits, 4),
     scheme            |-> At(SchemeId, FromLE(p.scheme, 4)),
     version           |-> FromLE(p.version, 4)]

\* bincode::deserialize: the only refusals are those of the decoding itself,
\* a length running past the data, an Option tag other than 0 or 1, an enum
\* index that names no variant.  No field of params is compared to anything.
from_bytes(bytes) ==
    IF \E r \in 0..9 : \E i \in 0..31 : Table16x256_short(bytes.rounds[r][i])
    THEN Err("unexpected end of file")
    ELSE IF bytes.output.tag \notin {0, 1}
    THEN Err("invalid tag encoding")
    ELSE IF FromLE(bytes.params.scheme, 4) < 0
            \/ FromLE(bytes.params.scheme, 4) >= Len(SchemeId)
    THEN Err("invalid enum variant")
    ELSE Ok([rounds |-> [r \in 0..9 |-> [tables |-> [i \in 0..31 |->
                            Table16x256_from_bytes(bytes.rounds[r][i])]]],
             encodings |-> [input |-> bytes.input,
                            output |-> IF bytes.output.tag = 0 THEN None
                                       ELSE bytes.output.some],
             params |-> InstanceParams_from_bytes(bytes.params)])

\* The blobs offered to from_bytes besides the one to_bytes wrote: that blob
\* with one field rewritten.
Tamperings == {"version", "scheme", "block_bytes", "rounds", "table_len"}

Tamper(bytes, how) ==
    CASE how = "version"     -> [bytes EXCEPT !.params.version = LE(2, 4)]
      [] how = "scheme"      -> [bytes EXCEPT !.params.scheme = LE(1, 4)]
      [] how = "block_bytes" -> [bytes EXCEPT !.params.block_bytes = LE(16, 8)]
      [] how = "rounds"      -> [bytes EXCEPT !.params.rounds = LE(9, 8)]
      [] how = "table_len"   -> [bytes EXCEPT !.rounds[0][0].len = LE(0, 8),
                                              !.rounds[0][0].avail = 0]

(***************************************************************************)
(* The state.  g: the generator and the call of generate_instance (cmd_gen)*)
(* store: the instance file, as written or with one field rewritten, and   *)
(* what load_instance made of it.  enc: the data of cmd_enc and the chunk  *)
(* it is at.  workers: threads sharing the loaded instance, one block each.*)
(* dec: the data of cmd_dec and the chunk it is at.  alg: an operation of  *)
(* the matrix and affine algebra applied to inputs of its own.             *)
(***************************************************************************)
VARIABLES g, store, enc, workers, dec, alg

vars == <<g, store, enc, workers, dec, alg>>

\* The threads that share the cipher.
Threads == {1, 2}

(***************************************************************************)
(* wbaes-cli/src/main.rs                                                   *)
(***************************************************************************)
\* cmd_gen after generate_instance: the instance is serialized and written;
\* the generator and the locals of the call go out of scope.  What was drawn
\* for M_in and M_out, and the record of the draws, stay for reference.
cmd_gen_drop(gen) ==
    [gen EXCEPT !.pc = "exit",
                !.round_keys = None, !.mc_sr = None, !.sr_only = None,
                !.key0_affine = None, !.a_encodings = <<>>,
                !.input_encoding = None, !.rounds = <<>>, !.instance = None]

cmd_gen_write(instance) ==
    [pc |-> "file", bytes |-> to_bytes(instance).val, tampered |-> "none", result |-> None]

\* load_instance: the bytes read are handed to from_bytes.
load_instance(file) ==
    [file EXCEPT !.pc = "loaded", !.bytes = None, !.result = from_bytes(file.bytes)]

\* data.len() % 32 != 0
bad_length_never(len) == FALSE

bad_length(len) == len % 32 # 0

\* cmd_enc up to its loop: `len` bytes are read; a length that is no
\* multiple of 32 ends the command with an error.
cmd_enc_read(e, len) ==
    [e EXCEPT !.len = len, !.pc = IF bad_length(len) THEN "error" ELSE "run"]

\* cmd_enc after its loop: the data are written to the output file.
cmd_enc_write(e) == [e EXCEPT !.out = e.data, !.pc = "done"]

\* One iteration of the loop of cmd_enc over the 32-byte chunks of `data`.
cmd_enc_chunk(instance, e) ==
    Let(WbCipher256_encrypt_block(instance, e.data[e.i]),
        LAMBDA block : IF block = None THEN [e EXCEPT !.pc = "panic"]
                       ELSE [e EXCEPT !.data[e.i] = block, !.i = @ + 1])

IdleDec == [pc |-> "idle", i |-> 0, len |-> 0, data |-> None, out |-> None, err |-> None]

\* cmd_dec up to its loop: the instance is loaded, an instance with an output
\* encoding is refused, the key parsed, `len` bytes read and their length
\* checked.
cmd_dec_read(instance, data, len) ==
    IF instance.encodings.output # None
    THEN [IdleDec EXCEPT !.pc = "error", !.err = "output encoding"]
    ELSE IF bad_length(len)
    THEN [IdleDec EXCEPT !.pc = "error", !.err = "length", !.len = len, !.data = data]
    ELSE [IdleDec EXCEPT !.pc = "run", !.len = len, !.data = data]

\* One iteration of the loop of cmd_dec: both halves of the chunk decrypted.
cmd_dec_chunk(round_keys, d) ==
    [d EXCEPT !.data[d.i] = Concat(decrypt_block(Slice(d.data[d.i], 0, 16), round_keys), 16,
                                   decrypt_block(Slice(d.data[d.i], 16, 16), round_keys), 16),
              !.i = @ + 1]

\* cmd_dec after its loop: the data are written to the output file.
cmd_dec_write(d) == [d EXCEPT !.out = d.data, !.pc = "done"]

(***************************************************************************)
(* WbCipher256::encrypt_block as run by one thread on its own block: `w`   *)
(* is the thread's position, the block it was given and its buffer.        *)
(***************************************************************************)
IdleWorker == [pc |-> "idle", input |-> None, block |-> None, r |-> 0]

encrypt_block_begin(instance, P) ==
    [pc |-> "rounds", input |-> P, block |-> WbInput(instance, P), r |-> 0]

\* A round that reads the state from one buffer all threads share: that of
\* the first thread that is in its rounds.
encrypt_block_round_shared_state(instance, w) ==
    Let(WbRound(instance.rounds[w.r],
                workers[CHOOSE t \in Threads :
                            /\ workers[t].pc = "rounds"
                            /\ \A u \in Threads : workers[u].pc = "rounds" => t <= u].block),
        LAMBDA S : IF S = None THEN [w EXCEPT !.pc = "panic"]
                   ELSE [w EXCEPT !.block = S, !.r = @ + 1,
                                  !.pc = IF w.r + 1 = 10 THEN "output" ELSE "rounds"])

\* A round whose lookups are XORed into the state itself, so that lookup i
\* reads what the lookups before it have written.
encrypt_block_round_in_place(instance, w) ==
    Let(FoldRange(LAMBDA S, i :
                      WbXor(S, Table16x256_get(instance.rounds[w.r].tables[i],
                                               S[i], S[(i + 1) % 32])),
                  w.block, 0, 32),
        LAMBDA S : IF S = None THEN [w EXCEPT !.pc = "panic"]
                   ELSE [w EXCEPT !.block = S, !.r = @ + 1,
                                  !.pc = IF w.r + 1 = 10 THEN "output" ELSE "rounds"])

encrypt_block_round(instance, w) ==
    Let(WbRound(instance.rounds[w.r], w.block),
        LAMBDA S : IF S = None THEN [w EXCEPT !.pc = "panic"]
                   ELSE [w EXCEPT !.block = S, !.r = @ + 1,
                                  !.pc = IF w.r + 1 = 10 THEN "output" ELSE "rounds"])

encrypt_block_end(instance, w) ==
    [w EXCEPT !.block = WbOutput(instance, w.block), !.pc = "done"]

(***************************************************************************)
(* The state machine: cmd_gen (generate_instance, then the file), the file *)
(* as written or with one field rewritten, cmd_enc on the loaded instance, *)
(* then threads sharing the cipher, one block each.                        *)
(***************************************************************************)
\* Bounds of the check.
NumCases == 2

NumPlain == 2

\* Seeds of the generator, one per case; with these few candidates of
\* random_sparse_unsplit are singular, and some are.
SEEDS == << 1372, 2061, 3208, 66 >>

\* Case c: a key, a seed, and external encodings in the odd cases.
KeyOf(c) == [i \in 0..15 |-> (3 * i + 43 * c + 66) % 256]

Plaintext(p) == [i \in 0..31 |-> (7 * i + 1 + 89 * p) % 256]

\* The block thread t encrypts.
BlockOf(t) == (t - 1) % NumPlain

\* The lengths in bytes of the input files of cmd_enc and cmd_dec: NumPlain
\* whole chunks, one byte less, half a chunk more.
InputLengths == {32 * NumPlain, 32 * NumPlain - 1, 32 * NumPlain + 16}

Init ==
    /\ \E c \in 0..(NumCases - 1) :
          g = Generator_with_config(At(SEEDS, c), c % 2 = 1, KeyOf(c))
    /\ store = [pc |-> "none", bytes |-> None, tampered |-> "none", result |-> None]
    /\ enc = [pc |-> "read", i |-> 0, len |-> 0, out |-> None,
              data |-> [p \in 0..(NumPlain - 1) |-> Plaintext(p)]]
    /\ workers = [t \in Threads |-> IdleWorker]
    /\ dec = IdleDec
    /\ alg = None

Begin ==
    /\ g.pc = "start"
    /\ g' = generate_instance_begin(g)
    /\ UNCHANGED <<store, enc, workers, dec, alg>>

PushA ==
    /\ g.pc = "a_encodings"
    /\ g' = generate_instance_push_a(g)
    /\ UNCHANGED <<store, enc, workers, dec, alg>>

External ==
    /\ g.pc = "external"
    /\ g' = generate_instance_external(g)
    /\ UNCHANGED <<store, enc, workers, dec, alg>>

InputEncoding ==
    /\ g.pc = "input"
    /\ g' = generate_instance_input(g)
    /\ UNCHANGED <<store, enc, workers, dec, alg>>

BuildRound ==
    /\ g.pc = "rounds"
    /\ g' = generate_instance_round(g)
    /\ UNCHANGED <<store, enc, workers, dec, alg>>

Return ==
    /\ g.pc = "return"
    /\ g' = generate_instance_return(g)
    /\ UNCHANGED <<store, enc, workers, dec, alg>>

WriteInstance ==
    /\ g.pc = "done"
    /\ store' = cmd_gen_write(g.instance)
    /\ g' = cmd_gen_drop(g)
    /\ UNCHANGED <<enc, workers, dec, alg>>

\* Another blob than the one written is offered to the reader.
TamperFile ==
    /\ store.pc = "file"
    /\ store.tampered = "none"
    /\ \E how \in Tamperings :
          store' = [store EXCEPT !.bytes = Tamper(store.bytes, how), !.tampered = how]
    /\ UNCHANGED <<g, enc, workers, dec, alg>>

LoadInstance ==
    /\ store.pc = "file"
    /\ store' = load_instance(store)
    /\ UNCHANGED <<g, enc, workers, dec, alg>>

EncryptRead ==
    /\ store.pc = "loaded"
    /\ store.result.ok
    /\ enc.pc = "read"
    /\ \E len \in InputLengths : enc' = cmd_enc_read(enc, len)
    /\ UNCHANGED <<g, store, workers, dec, alg>>

EncryptChunk ==
    /\ store.pc = "loaded"
    /\ store.result.ok
    /\ enc.pc = "run"
    /\ enc.i < enc.len \div 32
    /\ enc' = cmd_enc_chunk(store.result.val, enc)
    /\ UNCHANGED <<g, store, workers, dec, alg>>

EncryptWrite ==
    /\ enc.pc = "run"
    /\ enc.i = enc.len \div 32
    /\ enc' = cmd_enc_write(enc)
    /\ UNCHANGED <<g, store, workers, dec, alg>>

\* cmd_dec on the file cmd_enc wrote, or on its input where cmd_enc refused
\* it, cut to one of the lengths.
DecryptRead ==
    /\ store.pc = "loaded"
    /\ store.tampered = "none"
    /\ enc.pc \in {"done", "error"}
    /\ dec.pc = "idle"
    /\ \A t \in Threads : workers[t].pc = "idle"
    /\ \E len \in InputLengths : dec' = cmd_dec_read(store.result.val, enc.data, len)
    /\ UNCHANGED <<g, store, enc, workers, alg>>

DecryptChunk ==
    /\ dec.pc = "run"
    /\ dec.i < dec.len \div 32
    /\ dec' = cmd_dec_chunk(expand_key(g.key), dec)
    /\ UNCHANGED <<g, store, enc, workers, alg>>

DecryptWrite ==
    /\ dec.pc = "run"
    /\ dec.i = dec.len \div 32
    /\ dec' = cmd_dec_write(dec)
    /\ UNCHANGED <<g, store, enc, workers, alg>>

\* The threads run on the instance cmd_enc used, once it is done; their run
\* and cmd_dec are followed apart, neither reading what the other writes.
EncryptBegin(t) ==
    /\ store.pc = "loaded"
    /\ store.tampered = "none"
    /\ enc.pc = "done"
    /\ dec.pc = "idle"
    /\ workers[t].pc = "idle"
    /\ workers' = [workers EXCEPT
                     ![t] = encrypt_block_begin(store.result.val, Plaintext(BlockOf(t)))]
    /\ UNCHANGED <<g, store, enc, dec, alg>>

EncryptRound(t) ==
    /\ workers[t].pc = "rounds"
    /\ workers' = [workers EXCEPT ![t] = encrypt_block_round(store.result.val, workers[t])]
    /\ UNCHANGED <<g, store, enc, dec, alg>>

EncryptEnd(t) ==
    /\ workers[t].pc = "output"
    /\ workers' = [workers EXCEPT ![t] = encrypt_block_end(store.result.val, workers[t])]
    /\ UNCHANGED <<g, store, enc, dec, alg>>

Next ==
    \/ Begin
    \/ PushA
    \/ External
    \/ InputEncoding
    \/ BuildRound
    \/ Return
    \/ WriteInstance
    \/ TamperFile
    \/ LoadInstance
    \/ EncryptRead
    \/ EncryptChunk
    \/ EncryptWrite
    \/ DecryptRead
    \/ DecryptChunk
    \/ DecryptWrite
    \/ \E t \in Threads : EncryptBegin(t)
    \/ \E t \in Threads : EncryptRound(t)
    \/ \E t \in Threads : EncryptEnd(t)

Spec == Init /\ [][Next]_vars

(***************************************************************************)
(* The matrix and affine algebra on inputs of its own.  `alg` is one call: *)
(* the operation, the choice of its inputs (k), the inputs once built (in) *)
(* and what the operation returned (out).                                  *)
(***************************************************************************)
\* Bounds of the inputs.
NumAffine8 == 10

NumAffine256 == 2

\* The candidates Matrix8::random_invertible is followed through.
MaxDraws == 1001

\* Affine8 number k: from Affine8::random for even k, else any matrix and
\* bias the stream gives (singular ones among them).
Affine8Input(k) ==
    IF k % 2 = 0 THEN Affine8_random(seeded_rng(k + 1)).val
    ELSE Affine8_new(Matrix8_random(seeded_rng(k + 1)).val, RngByte(k + 1, 32))

\* Affine256 number k: from Affine256::random_sparse_unsplit.
Affine256Input(k) == Affine256_random_sparse_unsplit(seeded_rng(At(SEEDS, k))).val

\* The maps handed to Affine256::invert: the sampled ones, those with row 1
\* overwritten by row 0, the zero matrix, the identity, MC o SR.
Invert256Kinds ==
    {<<"sampled", k>> : k \in 0..(NumAffine256 - 1)}
    \cup {<<"equal rows", k>> : k \in 0..(NumAffine256 - 1)}
    \cup {<<"zero", 0>>, <<"identity", 0>>, <<"mc_sr", 0>>}

Invert256Input(kind) ==
    CASE kind[1] = "sampled"    -> Affine256Input(kind[2])
      [] kind[1] = "equal rows" ->
             Let(Affine256Input(kind[2]),
                 LAMBDA a : Affine256_new([a.lin EXCEPT ![1] = a.lin[0]], a.bias))
      [] kind[1] = "zero"       -> Affine256_new(Matrix256_zero, Plaintext(0))
      [] kind[1] = "identity"   -> Affine256_new(Matrix256_identity, Plaintext(0))
      [] kind[1] = "mc_sr"      -> Affine256_new(mc_sr_matrix_256, Plaintext(1))

\* The matrices handed to submatrix_byte_map.
ByteMapKinds == {<<"sampled", k>> : k \in 0..(NumAffine256 - 1)} \cup {<<"mc_sr", 0>>}

ByteMapInput(kind) ==
    IF kind[1] = "sampled" THEN Affine256Input(kind[2]).lin ELSE mc_sr_matrix_256

ByteIndices == {0, 1, 15, 16, 31}

\* Vector number k: the 256 basis vectors, zero, the plaintexts.
VectorInputs == 0..(256 + NumPlain)

VectorInput(k) ==
    IF k < 256 THEN BasisVector(k)
    ELSE IF k = 256 THEN Zeros(32)
    ELSE Plaintext(k - 257)

\* The 32-byte vector whose byte byte_index is value and whose other bytes are 0.
ByteVector(byte_index, value) == [k \in 0..31 |-> IF k = byte_index THEN value ELSE 0]

AlgCall(op, k) == [op |-> op, pc |-> "call", k |-> k, in |-> None, out |-> None]

AlgReturn(call, in, out) == [call EXCEPT !.pc = "done", !.in = in, !.out = out]

alg_Affine8_compose(call) ==
    Let([a |-> Affine8Input(call.k[1]), b |-> Affine8Input(call.k[2])],
        LAMBDA in : AlgReturn(call, in, Affine8_compose(in.a, in.b)))

alg_Affine256_compose(call) ==
    Let([a |-> Affine256Input(call.k[1]), b |-> Affine256Input(call.k[2])],
        LAMBDA in : AlgReturn(call, in, Affine256_compose(in.a, in.b)))

alg_Affine8_invert(call) ==
    Let([a |-> Affine8Input(call.k)],
        LAMBDA in : AlgReturn(call, in, Affine8_invert(in.a)))

alg_Affine256_invert(call) ==
    Let([a |-> Invert256Input(call.k)],
        LAMBDA in : AlgReturn(call, in, Affine256_invert(in.a)))

alg_submatrix_byte_map(call) ==
    Let([m |-> ByteMapInput(call.k[1]), byte_index |-> call.k[2]],
        LAMBDA in : AlgReturn(call, in,
                              Force(Matrix256_submatrix_byte_map(in.m, in.byte_index))))

alg_mc_sr_apply(call) ==
    Let([x |-> VectorInput(call.k)],
        LAMBDA in : AlgReturn(call, in, Matrix256_apply_to_bytes(mc_sr_matrix_256, in.x)))

\* Matrix8::random_invertible entered with the generator `rng`.
random_invertible_call(rng) ==
    [op |-> "Matrix8::random_invertible", pc |-> "loop", k |-> rng.seed,
     in |-> [rng |-> rng, failures |-> 0], out |-> None]

\* One iteration of its loop: a candidate is drawn and returned if it is
\* invertible; else the loop goes round.
random_invertible_iteration(call) ==
    Let(Matrix8_random(call.in.rng),
        LAMBDA candidate :
            IF Matrix8_is_invertible(candidate.val)
            THEN [call EXCEPT !.pc = "done", !.in.rng = candidate.rng, !.out = candidate.val]
            ELSE [call EXCEPT !.in.rng = candidate.rng, !.in.failures = @ + 1])

AlgInit ==
    /\ \/ \E i \in 0..(NumAffine8 - 1), j \in 0..(NumAffine8 - 1) :
              alg = AlgCall("Affine8::compose", <<i, j>>)
       \/ \E i \in 0..(NumAffine256 - 1), j \in 0..(NumAffine256 - 1) :
              alg = AlgCall("Affine256::compose", <<i, j>>)
       \/ \E i \in 0..(NumAffine8 - 1) : alg = AlgCall("Affine8::invert", i)
       \/ \E kind \in Invert256Kinds : alg = AlgCall("Affine256::invert", kind)
       \/ \E kind \in ByteMapKinds, i \in ByteIndices :
              alg = AlgCall("Matrix256::submatrix_byte_map", <<kind, i>>)
       \/ \E k \in VectorInputs : alg = AlgCall("mc_sr_matrix_256", k)
       \/ \E rng \in {stuck_rng, seeded_rng(1), seeded_rng(2)} :
              alg = random_invertible_call(rng)
    /\ g = None
    /\ store = None
    /\ enc = None
    /\ workers = None
    /\ dec = None

AlgCompose8 ==
    /\ alg.op = "Affine8::compose"
    /\ alg.pc = "call"
    /\ alg' = alg_Affine8_compose(alg)
    /\ UNCHANGED <<g, store, enc, workers, dec>>

AlgCompose256 ==
    /\ alg.op = "Affine256::compose"
    /\ alg.pc = "call"
    /\ alg' = alg_Affine256_compose(alg)
    /\ UNCHANGED <<g, store, enc, workers, dec>>

AlgInvert8 ==
    /\ alg.op = "Affine8::invert"
    /\ alg.pc = "call"
    /\ alg' = alg_Affine8_invert(alg)
    /\ UNCHANGED <<g, store, enc, workers, dec>>

AlgInvert256 ==
    /\ alg.op = "Affine256::invert"
    /\ alg.pc = "call"
    /\ alg' = alg_Affine256_invert(alg)
    /\ UNCHANGED <<g, store, enc, workers, dec>>

AlgByteMap ==
    /\ alg.op = "Matrix256::submatrix_byte_map"
    /\ alg.pc = "call"
    /\ alg' = alg_submatrix_byte_map(alg)
    /\ UNCHANGED <<g, store, enc, workers, dec>>

AlgMcSr ==
    /\ alg.op = "mc_sr_matrix_256"
    /\ alg.pc = "call"
    /\ alg' = alg_mc_sr_apply(alg)
    /\ UNCHANGED <<g, store, enc, workers, dec>>

AlgRandomInvertible ==
    /\ alg.op = "Matrix8::random_invertible"
    /\ alg.pc = "loop"
    /\ alg.in.failures < MaxDraws
    /\ alg' = random_invertible_iteration(alg)
    /\ UNCHANGED <<g, store, enc, workers, dec>>

AlgNext ==
    \/ AlgCompose8
    \/ AlgCompose256
    \/ AlgInvert8
    \/ AlgInvert256
    \/ AlgByteMap
    \/ AlgMcSr
    \/ AlgRandomInvertible

AlgSpec == AlgInit /\ [][AlgNext]_vars

(***************************************************************************)
(* The matrices of matrix.rs, split_biases and the tables of tables.rs on  *)
(* inputs of their own.  `alg` is one call, as above.                      *)
(***************************************************************************)
\* Bounds of the inputs.
NumMatrix8 == 12

NumMatrix256 == 2

NumTables == 2

\* Matrix8 number k: zero, the identity, then from Matrix8::random_invertible
\* for even k and whatever Matrix8::random gives for odd k.
Matrix8Input(k) ==
    IF k = 0 THEN Matrix8_zero
    ELSE IF k = 1 THEN Matrix8_identity
    ELSE IF k % 2 = 0 THEN Matrix8_random_invertible(seeded_rng(k)).val
    ELSE Matrix8_random(seeded_rng(k)).val

\* Matrix256 of a kind: those random_sparse_unsplit returns, these with row 1
\* overwritten by row 0 or row 2 by the sum of rows 0 and 1, zero, the
\* identity, MC o SR, SR.
Matrix256Sampled(k) == Matrix256_random_sparse_unsplit(seeded_rng(At(SEEDS, k))).val

Matrix256Kinds ==
    {<<"sampled", k>> : k \in 0..(NumMatrix256 - 1)}
    \cup {<<"equal rows", k>> : k \in 0..(NumMatrix256 - 1)}
    \cup {<<"dependent rows", k>> : k \in 0..(NumMatrix256 - 1)}
    \cup {<<"zero", 0>>, <<"identity", 0>>, <<"mc_sr", 0>>, <<"sr", 0>>}

Matrix256Input(kind) ==
    CASE kind[1] = "sampled"        -> Matrix256Sampled(kind[2])
      [] kind[1] = "equal rows"     ->
             Let(Matrix256Sampled(kind[2]), LAMBDA m : [m EXCEPT ![1] = m[0]])
      [] kind[1] = "dependent rows" ->
             Let(Matrix256Sampled(kind[2]),
                 LAMBDA m : [m EXCEPT ![2] = RowXor(m[0], m[1])])
      [] kind[1] = "zero"           -> Matrix256_zero
      [] kind[1] = "identity"       -> Matrix256_identity
      [] kind[1] = "mc_sr"          -> mc_sr_matrix_256
      [] kind[1] = "sr"             -> sr_matrix_256

\* The kinds of the operands of Matrix256::mul and of block.
Mul256Kinds ==
    {<<"sampled", k>> : k \in 0..(NumMatrix256 - 1)}
    \cup {<<"equal rows", 0>>, <<"mc_sr", 0>>}

Block256Kinds ==
    {<<"sampled", k>> : k \in 0..(NumMatrix256 - 1)} \cup {<<"mc_sr", 0>>, <<"identity", 0>>}

\* The vectors (numbers of VectorInput) block is compared on.
BlockVectors == {0, 7, 8, 255, 256} \cup (257..(256 + NumPlain))

\* The generators and targets handed to split_biases.
SplitRngs == {stuck_rng, seeded_rng(1), Advance(seeded_rng(2), 4000)}

SplitTargets == {Zeros(32)} \cup {Plaintext(p) : p \in 0..(NumPlain - 1)}

\* The value of table_roundtrip, with j in byte 1.
TableValue(j) ==
    [k \in 0..31 |-> IF k = 0 THEN 170 ELSE IF k = 31 THEN 85 ELSE IF k = 1 THEN j ELSE 0]

\* Table number k: new_zeroed, then entries (j + 1, j + 2) set for j < k.
TableInput(k) ==
    FoldRange(LAMBDA table, j : Table16x256_set(table, j + 1, j + 2, TableValue(j)),
              Table16x256_new_zeroed, 0, k)

\* The (x, y) handed to set.
TableKeys == {<<0, 0>>, <<1, 2>>, <<0, 16>>, <<1, 0>>, <<255, 255>>}

alg_Matrix8_invert(call) ==
    Let([m |-> Matrix8Input(call.k)],
        LAMBDA in : AlgReturn(call, in, [inv |-> Matrix8_invert(in.m),
                                         is_invertible |-> Matrix8_is_invertible(in.m)]))

alg_Matrix256_invert(call) ==
    Let([m |-> Matrix256Input(call.k)],
        LAMBDA in : AlgReturn(call, in, [inv |-> Matrix256_invert(in.m),
                                         is_invertible |-> Matrix256_is_invertible(in.m)]))

alg_Matrix8_mul(call) ==
    Let([a |-> Matrix8Input(call.k[1]), b |-> Matrix8Input(call.k[2])],
        LAMBDA in : AlgReturn(call, in, Matrix8_mul(in.a, in.b)))

alg_Matrix256_mul(call) ==
    Let([a |-> Matrix256Input(call.k[1]), b |-> Matrix256Input(call.k[2])],
        LAMBDA in : AlgReturn(call, in, Force(Matrix256_mul(in.a, in.b))))

\* apply_to_bytes on x next to the 32 x 32 blocks of the matrix.
alg_Matrix256_block(call) ==
    Let([m |-> Matrix256Input(call.k[1]), x |-> VectorInput(call.k[2])],
        LAMBDA in : AlgReturn(call, in,
            [applied |-> Matrix256_apply_to_bytes(in.m, in.x),
             blocks  |-> Force([I \in 0..31 |->
                                   [J \in 0..31 |-> Matrix256_block(in.m, I, J)]])]))

alg_split_biases(call) ==
    Let([rng |-> call.k[1], target |-> call.k[2]],
        LAMBDA in : AlgReturn(call, in, split_biases(in.rng, in.target)))

alg_Table16x256_set(call) ==
    Let([table |-> TableInput(call.k[1]), x |-> call.k[2][1], y |-> call.k[2][2],
         value |-> TableValue(call.k[3])],
        LAMBDA in : AlgReturn(call, in, Table16x256_set(in.table, in.x, in.y, in.value)))

MatInit ==
    /\ \/ \E i \in 0..(NumMatrix8 - 1) : alg = AlgCall("Matrix8::invert", i)
       \/ \E kind \in Matrix256Kinds : alg = AlgCall("Matrix256::invert", kind)
       \/ \E i \in 0..(NumMatrix8 - 1), j \in 0..(NumMatrix8 - 1) :
              alg = AlgCall("Matrix8::mul", <<i, j>>)
       \/ \E ka \in Mul256Kinds, kb \in Mul256Kinds :
              alg = AlgCall("Matrix256::mul", <<ka, kb>>)
       \/ \E kind \in Block256Kinds, v \in BlockVectors :
              alg = AlgCall("Matrix256::block", <<kind, v>>)
       \/ \E rng \in SplitRngs, target \in SplitTargets :
              alg = AlgCall("split_biases", <<rng, target>>)
       \/ \E tk \in 0..(NumTables - 1), key \in TableKeys, j \in {100, 101} :
              alg = AlgCall("Table16x256::set", <<tk, key, j>>)
    /\ g = None
    /\ store = None
    /\ enc = None
    /\ workers = None
    /\ dec = None

MatInvert8 ==
    /\ alg.op = "Matrix8::invert"
    /\ alg.pc = "call"
    /\ alg' = alg_Matrix8_invert(alg)
    /\ UNCHANGED <<g, store, enc, workers, dec>>

MatInvert256 ==
    /\ alg.op = "Matrix256::invert"
    /\ alg.pc = "call"
    /\ alg' = alg_Matrix256_invert(alg)
    /\ UNCHANGED <<g, store, enc, workers, dec>>

MatMul8 ==
    /\ alg.op = "Matrix8::mul"
    /\ alg.pc = "call"
    /\ alg' = alg_Matrix8_mul(alg)
    /\ UNCHANGED <<g, store, enc, workers, dec>>

MatMul256 ==
    /\ alg.op = "Matrix256::mul"
    /\ alg.pc = "call"
    /\ alg' = alg_Matrix256_mul(alg)
    /\ UNCHANGED <<g, store, enc, workers, dec>>

MatBlock ==
    /\ alg.op = "Matrix256::block"
    /\ alg.pc = "call"
    /\ alg' = alg_Matrix256_block(alg)
    /\ UNCHANGED <<g, store, enc, workers, dec>>

SplitBiases ==
    /\ alg.op = "split_biases"
    /\ alg.pc = "call"
    /\ alg' = alg_split_biases(alg)
    /\ UNCHANGED <<g, store, enc, workers, dec>>

TableSet ==
    /\ alg.op = "Table16x256::set"
    /\ alg.pc = "call"
    /\ alg' = alg_Table16x256_set(alg)
    /\ UNCHANGED <<g, store, enc, workers, dec>>

MatNext ==
    \/ MatInvert8
    \/ MatInvert256
    \/ MatMul8
    \/ MatMul256
    \/ MatBlock
    \/ SplitBiases
    \/ TableSet

MatSpec == MatInit /\ [][MatNext]_vars

(***************************************************************************)
(* Reference values.                                                       *)
(***************************************************************************)
\* AES(key, P[0..16]) || AES(key, P[16..32])
AesPair(key, P) ==
    Let(expand_key(key),
        LAMBDA round_keys : Concat(encrypt_block(Slice(P, 0, 16), round_keys), 16,
                                   encrypt_block(Slice(P, 16, 16), round_keys), 16))

\* AES_decrypt(key, C[0..16]) || AES_decrypt(key, C[16..32])
AesDecryptPair(key, C) ==
    Let(expand_key(key),
        LAMBDA round_keys : Concat(decrypt_block(Slice(C, 0, 16), round_keys), 16,
                                   decrypt_block(Slice(C, 16, 16), round_keys), 16))

\* dup(K0): round key 0 across both halves
Key0Block(key) == duplicate_round_key(expand_key(key)[0])

\* cmd_enc has just encrypted chunk LastChunk with the instance as written.
Encrypted ==
    /\ store.pc = "loaded"
    /\ store.tampered = "none"
    /\ enc.i > 0
    /\ \A t \in Threads : workers[t].pc = "idle"

LastChunk == enc.i - 1

(***************************************************************************)
(* The claims.                                                             *)
(***************************************************************************)
\* C1: once cmd_enc has encrypted a chunk P with an instance generated
\* without external encodings (and read back as written), the chunk holds
\* AES(key, P[0..16]) || AES(key, P[16..32]).
C1_FunctionalCorrectness ==
    (Encrypted /\ ~g.config.external_encodings)
        => enc.data[LastChunk] = AesPair(g.key, Plaintext(LastChunk))

C1_Witness ==
    /\ Encrypted
    /\ ~g.config.external_encodings
    /\ enc.i = NumPlain
    /\ enc.data[LastChunk] # Plaintext(LastChunk)

\* The plaintext an instance with external encodings encrypts when given X:
\* the key is added, M_in applied, and the tables go on from there, so that
\* AES sees M_in(X ^ dup(K0)) ^ dup(K0).
C2_EncryptedInput(m_in, k0, X) == XorBytes(Affine256_apply(m_in, XorBytes(X, k0, 32)), k0, 32)

\* C2 as stated: with external encodings, the result on X is the AES pair of
\* X itself under the output encoding: M_out takes the result to the pair,
\* or the result is M_out of the pair.
C2_AesOfInputUnderOutputEncoding ==
    (Encrypted /\ g.config.external_encodings)
        => \/ Affine256_apply(g.mout_encoding, enc.data[LastChunk])
                  = AesPair(g.key, Plaintext(LastChunk))
           \/ enc.data[LastChunk]
                  = Affine256_apply(g.mout_encoding, AesPair(g.key, Plaintext(LastChunk)))

\* C2 as the code has it: with external encodings, M_out takes the result on
\* X to the AES pair of M_in(X ^ dup(K0)) ^ dup(K0).
C2_AesOfEncodedInput ==
    (Encrypted /\ g.config.external_encodings)
        => Affine256_apply(g.mout_encoding, enc.data[LastChunk])
               = AesPair(g.key, C2_EncryptedInput(g.min_encoding, Key0Block(g.key),
                                                  Plaintext(LastChunk)))

C2_Witness ==
    /\ Encrypted
    /\ g.config.external_encodings
    /\ enc.i = NumPlain
    /\ C2_EncryptedInput(g.min_encoding, Key0Block(g.key), Plaintext(LastChunk))
           # Plaintext(LastChunk)

\* The k-th draw of generate_instance (k from 1) as the order prescribes it.
C4_Base(ext) == IF ext THEN 12 ELSE 10

C4_What(k, ext) ==
    IF k <= 10 THEN "A"
    ELSE IF ext /\ k = 11 THEN "M_in"
    ELSE IF ext /\ k = 12 THEN "M_out"
    ELSE IF (k - C4_Base(ext) - 1) % 2 = 0 THEN "bias" ELSE "H"

C4_Idx(k, ext) ==
    IF k <= 10 THEN k
    ELSE IF k <= C4_Base(ext) THEN 0
    ELSE (k - C4_Base(ext) - 1) \div 2

\* C4: the draws made so far are, in this order, A^(1)..A^(10), M_in and
\* M_out only with external encodings, then for r = 0..9 the 31 bias shares
\* (31 * 32 bytes) and H[0..31] (32 * 256 * 32 bytes); each draw starts where
\* the one before ended, the first at the start of the stream, and the
\* generator stands where the last one ended; a finished call has made them all.
C4_RngOrder ==
    /\ \A k \in 1..Len(g.draws) :
          /\ g.draws[k].what = C4_What(k, g.config.external_encodings)
          /\ g.draws[k].idx = C4_Idx(k, g.config.external_encodings)
          /\ g.draws[k].from = (IF k = 1 THEN 0 ELSE g.draws[k - 1].to)
          /\ g.draws[k].to > g.draws[k].from
          /\ g.draws[k].what = "bias" => g.draws[k].to - g.draws[k].from = 31 * 32
          /\ g.draws[k].what = "H" => g.draws[k].to - g.draws[k].from = 32 * 256 * 32
    /\ g.rng.pos = (IF Len(g.draws) = 0 THEN 0 ELSE g.draws[Len(g.draws)].to)
    /\ g.pc \in {"return", "done", "exit"}
          => Len(g.draws) = C4_Base(g.config.external_encodings) + 20

C4_Witness ==
    /\ g.pc = "done"
    /\ g.config.external_encodings
    /\ Len(g.draws) = 32
    /\ g.draws[11].what = "M_in"
    /\ g.draws[32].what = "H"

\* The inputs on which two affine maps of 32 bytes are compared: zero and the
\* 256 basis vectors (maps that agree there agree everywhere), and the
\* plaintexts of the check.
C5_Inputs ==
    {Zeros(32)} \cup {BasisVector(i) : i \in Idx256}
                \cup {Plaintext(p) : p \in 0..(NumPlain - 1)}

C5_InputUndoneByA1(a1, input, k0) ==
    \A x \in C5_Inputs :
        Affine256_apply(a1, Affine256_apply(input, x)) = XorBytes(x, k0, 32)

\* C5: without external encodings the instance returned has no output
\* encoding, and A^(1) applied after its input encoding is x -> x ^ (K0 || K0).
C5_InputEncodingWithoutExternal ==
    (g.pc = "done" /\ ~g.config.external_encodings)
        => /\ g.instance.encodings.output = None
           /\ C5_InputUndoneByA1(g.a_encodings[0], g.instance.encodings.input,
                                 Key0Block(g.key))

C5_Witness ==
    /\ g.pc = "done"
    /\ ~g.config.external_encodings
    /\ g.instance.encodings.output = None
    /\ g.instance.encodings.input.bias # Zeros(32)
    /\ g.a_encodings[0].bias # Zeros(32)

\* lin and bias of the input encoding as C6 states them, and the bias with
\* the bias of A^(1) in it.
C6_Lin(a1_lin_inv, m_in) == Matrix256_mul(a1_lin_inv, m_in.lin)

C6_BiasStated(a1_lin_inv, m_in, k0) ==
    Matrix256_apply_to_bytes(a1_lin_inv,
        XorBytes(Matrix256_apply_to_bytes(m_in.lin, k0), m_in.bias, 32))

C6_BiasWithA1(a1_lin_inv, a1, m_in, k0) ==
    Matrix256_apply_to_bytes(a1_lin_inv,
        XorBytes(XorBytes(Matrix256_apply_to_bytes(m_in.lin, k0), m_in.bias, 32),
                 a1.bias, 32))

\* generate_instance has just built the input encoding.
C6_Built == g.pc = "rounds" /\ g.r = 0

\* C6 as stated: lin = A1.lin^-1 * M_in.lin and
\* bias = A1.lin^-1 * (M_in.lin * dup(K0) ^ M_in.bias).
C6_InputEncodingAsStated ==
    C6_Built
        => /\ g.input_encoding.lin = C6_Lin(Matrix256_invert(g.a_encodings[0].lin),
                                            g.min_encoding)
           /\ g.input_encoding.bias
                  = C6_BiasStated(Matrix256_invert(g.a_encodings[0].lin),
                                  g.min_encoding, Key0Block(g.key))

\* C6 as the code has it: lin as stated, and
\* bias = A1.lin^-1 * (M_in.lin * dup(K0) ^ M_in.bias ^ A1.bias).
C6_InputEncodingWithA1Bias ==
    C6_Built
        => /\ g.input_encoding.lin = C6_Lin(Matrix256_invert(g.a_encodings[0].lin),
                                            g.min_encoding)
           /\ g.input_encoding.bias
                  = C6_BiasWithA1(Matrix256_invert(g.a_encodings[0].lin),
                                  g.a_encodings[0], g.min_encoding, Key0Block(g.key))

C6_Witness ==
    /\ C6_Built
    /\ g.config.external_encodings
    /\ g.a_encodings[0].bias # Zeros(32)
    /\ g.min_encoding.bias # Zeros(32)

\* A thread that has finished holds what cmd_enc, alone, made of the same block.
C7_ThreadAgrees(t) == workers[t].pc = "done" => workers[t].block = enc.data[BlockOf(t)]

C8_Decodability ==
    (Encrypted /\ ~g.config.external_encodings /\ store.result.val.encodings.output = None)
        => AesDecryptPair(g.key, enc.data[LastChunk]) = Plaintext(LastChunk)

C8_Witness ==
    /\ Encrypted
    /\ ~g.config.external_encodings
    /\ store.result.val.encodings.output = None
    /\ enc.i = 1
    /\ enc.data[0] # Plaintext(0)

\* C9 as stated: a blob whose version or scheme is not the supported one is
\* refused by from_bytes.
C9_MismatchRefused ==
    (store.pc = "loaded" /\ store.tampered \in {"version", "scheme"})
        => ~store.result.ok

\* C10 as stated: a blob with a wrong block size, round count or table
\* length is refused, every table of an instance from_bytes returns holds
\* 65536 * 32 bytes, and no get of the evaluation leaves its table.
C10_ShapeRefused ==
    /\ (store.pc = "loaded" /\ store.tampered \in {"block_bytes", "rounds", "table_len"})
           => ~store.result.ok
    /\ (store.pc = "loaded" /\ store.result.ok)
           => \A r \in 0..9 : \A i \in 0..31 :
                  store.result.val.rounds[r].tables[i].len = ENTRIES * ENTRY_BYTES
    /\ enc.pc # "panic"

C12_BadLengthRefused ==
    /\ (enc.pc # "read" /\ enc.len % 32 # 0)
           => /\ enc.pc = "error"
              /\ enc.i = 0
              /\ enc.out = None
              /\ \A p \in 0..(NumPlain - 1) : enc.data[p] = Plaintext(p)
    /\ (dec.pc # "idle" /\ dec.len % 32 # 0)
           => /\ dec.pc = "error"
              /\ dec.i = 0
              /\ dec.out = None
              /\ dec.data = enc.data

C12_Witness ==
    /\ enc.pc = "error"
    /\ enc.len = 32 * NumPlain - 1
    /\ dec.pc = "error"
    /\ dec.err = "length"
    /\ dec.len = 32 * NumPlain + 16

\* C13 as stated: for an instance generated with external encodings, cmd_dec
\* ends with an error, decrypts no chunk and writes no output.
C13_DecRefusesExternalOutput ==
    (g.config.external_encodings /\ dec.pc # "idle")
        => /\ dec.pc = "error"
           /\ dec.i = 0
           /\ dec.out = None

\* The matrices random_sparse_unsplit has just returned: the A pushed last,
\* or M_in and M_out.
Sampled ==
    (IF g.pc \in {"a_encodings", "external"} /\ Len0(g.a_encodings) > 0
     THEN {g.a_encodings[Len0(g.a_encodings) - 1].lin} ELSE {})
    \cup (IF g.pc = "input" /\ g.config.external_encodings
          THEN {g.min_encoding.lin, g.mout_encoding.lin} ELSE {})

\* The block positions random_sparse_unsplit may fill.
C14_Allowed(row_block, col_block) ==
    \/ col_block = row_block
    \/ row_block < 31 /\ col_block = row_block + 1
    \/ row_block = 31 /\ col_block = 0

\* C14: every block of a matrix random_sparse_unsplit returned, other than
\* (k, k), (k, k + 1) for k < 31 and (31, 0), is the zero Matrix8.
C14_SparseStructure ==
    \A m \in Sampled : \A row_block \in 0..31 : \A col_block \in 0..31 :
        ~C14_Allowed(row_block, col_block)
            => Matrix256_block(m, row_block, col_block) = Matrix8_zero

C14_Witness ==
    /\ g.pc = "input"
    /\ g.config.external_encodings
    /\ Matrix256_block(g.min_encoding.lin, 31, 0) # Matrix8_zero
    /\ Matrix256_block(g.min_encoding.lin, 0, 1) # Matrix8_zero
    /\ Matrix256_block(g.mout_encoding.lin, 30, 31) # Matrix8_zero

\* C15: every matrix random_sparse_unsplit returned is invertible and so is
\* each of its 32 diagonal blocks; no expect of generate_instance or
\* build_round panics.
C15_SampledInvertible ==
    /\ \A m \in Sampled :
          /\ Matrix256_is_invertible(m)
          /\ \A k \in 0..31 : Matrix8_is_invertible(Matrix256_block(m, k, k))
    /\ g.pc # "panic"

C15_Witness ==
    /\ g.pc = "input"
    /\ g.rejected > 0
    /\ g.a_encodings[0].lin # Matrix256_identity

\* C16 as stated: Matrix8::random_invertible is never past 1000 rejected
\* candidates, and with 1000 rejected it has stopped with a fatal error
\* instead of being about to draw again.
C16_RejectionBounded ==
    alg.op = "Matrix8::random_invertible"
        => /\ alg.in.failures <= 1000
           /\ alg.in.failures = 1000 => alg.pc = "fatal"

\* C17: a.compose(b) applied to x is a applied to b applied to x: for Affine8
\* on every byte, for Affine256 on zero, the basis vectors and the plaintexts.
C17_ComposeIsComposition ==
    /\ (alg.op = "Affine8::compose" /\ alg.pc = "done")
           => \A x \in Byte :
                  Affine8_apply(alg.out, x)
                      = Affine8_apply(alg.in.a, Affine8_apply(alg.in.b, x))
    /\ (alg.op = "Affine256::compose" /\ alg.pc = "done")
           => \A k \in VectorInputs :
                  Affine256_apply(alg.out, VectorInput(k))
                      = Affine256_apply(alg.in.a, Affine256_apply(alg.in.b, VectorInput(k)))

C17_Witness ==
    /\ alg.op = "Affine256::compose"
    /\ alg.pc = "done"
    /\ alg.in.a # alg.in.b
    /\ alg.in.a.bias # Zeros(32)
    /\ alg.out.bias # alg.in.a.bias

\* A Matrix8 that sends a non-zero byte to 0.
C18_Singular8(m) == \E v \in 1..255 : Matrix8_apply(m, v) = 0

\* A Matrix256 with a zero row or two equal rows.
C18_Singular256(m) ==
    \E r \in Idx256 : m[r] = {} \/ \E q \in Idx256 : q # r /\ m[q] = m[r]

\* C18: invert returns None exactly for a singular linear part; what it
\* returns otherwise has the inverse matrix as lin (a product of identity on
\* both sides), lin^-1 * bias as bias, and undoes the map on both sides.
C18_InvertIsInverse ==
    /\ (alg.op = "Affine8::invert" /\ alg.pc = "done")
           => /\ alg.out = None <=> C18_Singular8(alg.in.a.lin)
              /\ alg.out # None
                     => /\ Matrix8_mul(alg.out.lin, alg.in.a.lin) = Matrix8_identity
                        /\ Matrix8_mul(alg.in.a.lin, alg.out.lin) = Matrix8_identity
                        /\ alg.out.bias = Matrix8_apply(alg.out.lin, alg.in.a.bias)
                        /\ \A x \in Byte :
                               /\ Affine8_apply(alg.out, Affine8_apply(alg.in.a, x)) = x
                               /\ Affine8_apply(alg.in.a, Affine8_apply(alg.out, x)) = x
    /\ (alg.op = "Affine256::invert" /\ alg.pc = "done")
           => /\ alg.out = None <=> C18_Singular256(alg.in.a.lin)
              /\ alg.out # None
                     => /\ Matrix256_mul(alg.out.lin, alg.in.a.lin) = Matrix256_identity
                        /\ Matrix256_mul(alg.in.a.lin, alg.out.lin) = Matrix256_identity
                        /\ alg.out.bias
                               = Matrix256_apply_to_bytes(alg.out.lin, alg.in.a.bias)
                        /\ \A k \in VectorInputs :
                               /\ Affine256_apply(alg.out,
                                      Affine256_apply(alg.in.a, VectorInput(k)))
                                      = VectorInput(k)
                               /\ Affine256_apply(alg.in.a,
                                      Affine256_apply(alg.out, VectorInput(k)))
                                      = VectorInput(k)

C18_Witness ==
    /\ alg.op = "Affine256::invert"
    /\ alg.pc = "done"
    /\ alg.k[1] = "sampled"
    /\ alg.out # None
    /\ alg.out.bias # alg.in.a.bias

\* C19: submatrix_byte_map(i)[v] is the matrix applied to the vector whose
\* byte i is v and whose other bytes are 0, for every v, 0 included.
C19_ByteMapIsApplication ==
    (alg.op = "Matrix256::submatrix_byte_map" /\ alg.pc = "done")
        => \A v \in Byte :
               alg.out[v] = Matrix256_apply_to_bytes(alg.in.m,
                                                     ByteVector(alg.in.byte_index, v))

C19_Witness ==
    /\ alg.op = "Matrix256::submatrix_byte_map"
    /\ alg.pc = "done"
    /\ alg.in.byte_index = 31
    /\ alg.out[0] = Zeros(32)
    /\ alg.out[255] # Zeros(32)
    /\ alg.out[128] # alg.out[127]

\* x with one half kept and the other set to zero.
C20_FirstHalf(x) == Concat(Slice(x, 0, 16), 16, Zeros(16), 16)

C20_SecondHalf(x) == Concat(Zeros(16), 16, Slice(x, 16, 16), 16)

\* C20: mc_sr_matrix_256 applied to x is MixColumns(ShiftRows(x[0..16]))
\* followed by MixColumns(ShiftRows(x[16..32])), and each half of the result
\* is what the matrix makes of that half of x alone.
C20_McSrOnBothHalves ==
    (alg.op = "mc_sr_matrix_256" /\ alg.pc = "done")
        => /\ alg.out = Concat(mix_columns(shift_rows(Slice(alg.in.x, 0, 16))), 16,
                               mix_columns(shift_rows(Slice(alg.in.x, 16, 16))), 16)
           /\ Slice(alg.out, 0, 16)
                  = Slice(Matrix256_apply_to_bytes(mc_sr_matrix_256,
                                                   C20_FirstHalf(alg.in.x)), 0, 16)
           /\ Slice(alg.out, 16, 16)
                  = Slice(Matrix256_apply_to_bytes(mc_sr_matrix_256,
                                                   C20_SecondHalf(alg.in.x)), 16, 16)

C20_Witness ==
    /\ alg.op = "mc_sr_matrix_256"
    /\ alg.pc = "done"
    /\ alg.out # alg.in.x
    /\ Slice(alg.in.x, 0, 16) # Zeros(16)
    /\ Slice(alg.in.x, 16, 16) # Zeros(16)
    /\ Slice(alg.out, 0, 16) # Slice(alg.out, 16, 16)

\* C21: where Matrix8::invert or Matrix256::invert returns Some(inv), m.mul(inv)
\* is the identity and inv applied after m gives back v: every byte v for
\* Matrix8; zero, the basis vectors and the plaintexts for Matrix256.
C21_InversionCorrect ==
    /\ (alg.op = "Matrix8::invert" /\ alg.pc = "done" /\ alg.out.inv # None)
           => /\ Matrix8_mul(alg.in.m, alg.out.inv) = Matrix8_identity
              /\ \A v \in Byte :
                     Matrix8_apply(alg.out.inv, Matrix8_apply(alg.in.m, v)) = v
    /\ (alg.op = "Matrix256::invert" /\ alg.pc = "done" /\ alg.out.inv # None)
           => /\ Matrix256_mul(alg.in.m, alg.out.inv) = Matrix256_identity
              /\ \A k \in VectorInputs :
                     Matrix256_apply_to_bytes(alg.out.inv,
                         Matrix256_apply_to_bytes(alg.in.m, VectorInput(k)))
                         = VectorInput(k)

\* An inverse found by an elimination that had to swap rows in column 0.
C21_Witness ==
    /\ alg.op = "Matrix8::invert"
    /\ alg.pc = "done"
    /\ alg.out.inv # None
    /\ alg.out.inv # alg.in.m
    /\ BitOf(alg.in.m[0], 0) = 0

\* A Matrix8 whose apply is not a bijection of the bytes.
C22_NotBijective8(m) == {Matrix8_apply(m, v) : v \in Byte} # Byte

\* A Matrix256 with some of its rows 0, 1, 2 adding up to zero: the same sum
\* of the bits of m * x is then 0 for every x, and apply is not onto.
C22_RowsDependent256(m) ==
    \E rows \in (SUBSET (0..2)) \ {{}} :
        FoldRange(LAMBDA acc, r : IF r \in rows THEN RowXor(acc, m[r]) ELSE acc,
                  {}, 0, 3) = {}

\* C22: invert returns None exactly for a singular matrix (Matrix8: apply is
\* no bijection; Matrix256: dependent rows), is_invertible says whether it
\* returned a matrix, and a matrix it returns is an inverse (from the left,
\* so that apply is one to one).
C22_NoneIffSingular ==
    /\ (alg.op = "Matrix8::invert" /\ alg.pc = "done")
           => /\ alg.out.inv = None <=> C22_NotBijective8(alg.in.m)
              /\ alg.out.is_invertible <=> alg.out.inv # None
              /\ alg.out.inv # None
                     => Matrix8_mul(alg.out.inv, alg.in.m) = Matrix8_identity
    /\ (alg.op = "Matrix256::invert" /\ alg.pc = "done")
           => /\ alg.out.inv = None <=> C22_RowsDependent256(alg.in.m)
              /\ alg.out.is_invertible <=> alg.out.inv # None
              /\ alg.out.inv # None
                     => Matrix256_mul(alg.out.inv, alg.in.m) = Matrix256_identity

C22_Witness ==
    /\ alg.op = "Matrix256::invert"
    /\ alg.pc = "done"
    /\ alg.k[1] = "dependent rows"
    /\ alg.out.inv = None
    /\ ~alg.out.is_invertible
    /\ alg.in.m[0] # alg.in.m[1]

\* The XOR of the first n shares.
C23_XorOf(shares, n) ==
    FoldRange(LAMBDA acc, k : XorBytes(acc, shares[k], 32), Zeros(32), 0, n)

\* C23: split_biases returns 32 shares whose XOR is the target: the first 31
\* are the next 31 * 32 bytes of the generator, in order, and the last is the
\* target XOR the XOR of the first 31.
C23_SharesXorToTarget ==
    (alg.op = "split_biases" /\ alg.pc = "done")
        => /\ DOMAIN alg.out.val = 0..31
           /\ C23_XorOf(alg.out.val, 32) = alg.in.target
           /\ \A k \in 0..30 :
                  alg.out.val[k] = fill_bytes(Advance(alg.in.rng, 32 * k))
           /\ alg.out.val[31] = XorBytes(alg.in.target, C23_XorOf(alg.out.val, 31), 32)
           /\ alg.out.rng.pos = alg.in.rng.pos + 31 * 32

C23_Witness ==
    /\ alg.op = "split_biases"
    /\ alg.pc = "done"
    /\ alg.in.rng.seed >= 0
    /\ alg.in.target # Zeros(32)
    /\ alg.out.val[31] # alg.in.target
    /\ alg.out.val[0] # alg.out.val[1]

\* C24: after set(x, y, v) on a table, get(x, y) is v, the entry written is
\* entry (x << 8) | y of the data, get of every other pair is what it was,
\* and every entry of a new_zeroed table is zero.
C24_TableIsMap ==
    (alg.op = "Table16x256::set" /\ alg.pc = "done")
        => /\ alg.out # None
           /\ Table16x256_get(alg.out, alg.in.x, alg.in.y) = alg.in.value
           /\ DOMAIN alg.out.data
                  = (DOMAIN alg.in.table.data) \cup {alg.in.x * 256 + alg.in.y}
           /\ \A x \in Byte : \A y \in Byte :
                  (x # alg.in.x \/ y # alg.in.y)
                      => Table16x256_get(alg.out, x, y)
                             = Table16x256_get(alg.in.table, x, y)
           /\ alg.k[1] = 0
                  => \A x \in Byte : \A y \in Byte :
                         Table16x256_get(alg.in.table, x, y) = Zeros(32)

C24_Witness ==
    /\ alg.op = "Table16x256::set"
    /\ alg.pc = "done"
    /\ alg.k[1] = 1
    /\ alg.in.x = 0
    /\ alg.in.y = 16
    /\ Table16x256_get(alg.out, 0, 16) = alg.in.value
    /\ Table16x256_get(alg.out, 1, 2) = TableValue(0)
    /\ Table16x256_get(alg.out, 1, 0) = Zeros(32)

\* build_round has just returned round Built: what it was called with.
RoundBuilt == g.pc \in {"rounds", "return"} /\ g.r > 0

Built == g.r - 1

\* The states a round is looked at on.
RoundStates ==
    {Zeros(32), BasisVector(5), [k \in 0..31 |-> 255]}
    \cup {Plaintext(p) : p \in 0..(NumPlain - 1)}

\* t of C25: t[i] = sbox(block(i, i) * S[i] ^ block(i, (i + 1) mod 32) *
\* S[(i + 1) mod 32] ^ a_curr.bias[i]).
C25_T(a_curr, S) ==
    [i \in 0..31 |->
        sbox(Xor8(Xor8(Matrix8_apply(Matrix256_block(a_curr.lin, i, i), S[i]),
                       Matrix8_apply(Matrix256_block(a_curr.lin, i, (i + 1) % 32),
                                     S[(i + 1) % 32])),
                  a_curr.bias[i]))]

\* B_lin = next_inv * L and b_target = next_inv * bias ^ next_inv * key as
\* build_round computes them.
C25_Locals(next_affine, linear_layer, round_key_block) ==
    Let(Matrix256_invert(next_affine.lin),
        LAMBDA next_inv :
            [b_lin    |-> Force(Matrix256_mul(next_inv, linear_layer)),
             b_target |-> XorBytes(Matrix256_apply_to_bytes(next_inv, next_affine.bias),
                                   Matrix256_apply_to_bytes(next_inv, round_key_block),
                                   32)])

\* B_lin * t ^ b_target
C25_Sum(locals, t) ==
    XorBytes(Matrix256_apply_to_bytes(locals.b_lin, t), locals.b_target, 32)

\* The XOR over i of the masks table i adds: h[i](S[i]) ^ h[i + 1](S[i + 1]).
C25_Masks(round_tables, S) ==
    FoldRange(LAMBDA acc, i :
                  XorBytes(acc,
                      XorBytes(HTable_get(round_tables.tables[i].fill.h_i, S[i]),
                               HTable_get(round_tables.tables[i].fill.h_next,
                                          S[(i + 1) % 32]), 32), 32),
              Zeros(32), 0, 32)

\* C25: for the round build_round has just built and a state S, the XOR of
\* the 32 entries tables[i].get(S[i], S[(i + 1) mod 32]) is B_lin * t ^
\* b_target; the mask of y in table i is the mask of x in table i + 1, and
\* the masks XOR to zero.
C25_MasksCancel ==
    RoundBuilt
        => Let(C25_Locals(next_affine_of(g, Built),
                          IF Built = 9 THEN g.sr_only ELSE g.mc_sr,
                          duplicate_round_key(g.round_keys[Built + 1])),
               LAMBDA locals :
                   /\ \A S \in RoundStates :
                          /\ WbRound(g.rounds[Built], S)
                                 = C25_Sum(locals, C25_T(g.a_encodings[Built], S))
                          /\ C25_Masks(g.rounds[Built], S) = Zeros(32)
                   /\ \A i \in 0..31 :
                          g.rounds[Built].tables[i].fill.h_next
                              = g.rounds[Built].tables[(i + 1) % 32].fill.h_i)

C25_Witness ==
    /\ RoundBuilt
    /\ Built = 4
    /\ WbRound(g.rounds[Built], Plaintext(0)) # Zeros(32)
    /\ HTable_get(g.rounds[Built].tables[0].fill.h_i, Plaintext(0)[0]) # Zeros(32)
    /\ HTable_get(g.rounds[Built].tables[0].fill.h_i, Plaintext(0)[0])
           # HTable_get(g.rounds[Built].tables[0].fill.h_next, Plaintext(0)[1])

\* The linear layer of round r applied to both halves of a state.
C26_Linear(r, state) ==
    IF r = 9
    THEN Concat(shift_rows(Slice(state, 0, 16)), 16, shift_rows(Slice(state, 16, 16)), 16)
    ELSE Concat(mix_columns(shift_rows(Slice(state, 0, 16))), 16,
                mix_columns(shift_rows(Slice(state, 16, 16))), 16)

\* A_next of round r: A^(r+2), and for r = 9 M_out with external encodings,
\* else the identity.
C26_Next(r) ==
    IF r < 9 THEN g.a_encodings[r + 1]
    ELSE IF g.config.external_encodings THEN g.mout_encoding
    ELSE Affine256_identity

\* The XOR of the 32 bias shares of a round.
C26_Bias(round_tables) ==
    FoldRange(LAMBDA acc, i : XorBytes(acc, round_tables.tables[i].fill.b_bias, 32),
              Zeros(32), 0, 32)

\* C26: the round build_round has just built for index r decodes with
\* A^(r+1) (blocks and bias); A_next.lin takes the image of every basis
\* vector in its tables to the linear layer of round r on that vector
\* (MC o SR, for r = 9 SR alone); A_next takes the XOR of its bias shares to
\* round key r + 1 on both halves; and the input encoding followed by A^(1)
\* is M_in after the XOR with K_0.
C26_RoundParameters ==
    RoundBuilt
        => /\ \A i \in 0..31 :
                  /\ g.rounds[Built].tables[i].fill.block_left
                         = Matrix256_block(g.a_encodings[Built].lin, i, i)
                  /\ g.rounds[Built].tables[i].fill.block_right
                         = Matrix256_block(g.a_encodings[Built].lin, i, (i + 1) % 32)
                  /\ g.rounds[Built].tables[i].fill.a_bias = g.a_encodings[Built].bias[i]
                  /\ \A bit \in 0..7 :
                         Matrix256_apply_to_bytes(C26_Next(Built).lin,
                             g.rounds[Built].tables[i].fill.b_basis[bit])
                             = C26_Linear(Built, BasisVector(8 * i + bit))
           /\ Affine256_apply(C26_Next(Built), C26_Bias(g.rounds[Built]))
                  = duplicate_round_key(expand_key(g.key)[Built + 1])
           /\ \A p \in 0..(NumPlain - 1) :
                  Affine256_apply(g.a_encodings[0],
                                  Affine256_apply(g.input_encoding, Plaintext(p)))
                      = Affine256_apply(g.min_encoding,
                                        XorBytes(Plaintext(p), Key0Block(g.key), 32))

C26_Witness ==
    /\ g.pc = "return"
    /\ Built = 9
    /\ g.config.external_encodings
    /\ C26_Next(Built) = g.mout_encoding
    /\ C26_Linear(Built, Plaintext(0)) # C26_Linear(0, Plaintext(0))
    /\ expand_key(g.key)[10] # expand_key(g.key)[0]

\* The last AES round on a state encoded by A^(10): SubBytes on the decoded
\* bytes, ShiftRows on both halves, round key 10.
C27_LastRound(S) ==
    XorBytes(C26_Linear(9, C25_T(g.a_encodings[9], S)),
             duplicate_round_key(expand_key(g.key)[10]), 32)

\* C27: the instance generate_instance returns has no output encoding,
\* whatever the config; with external encodings M_out was drawn and is in the
\* tables of round 10, M_out of their XOR being the last AES round, without
\* them their XOR is the last AES round; the evaluator ends with that XOR.
C27_OutputFolded ==
    g.pc = "done"
        => /\ g.instance.encodings.output = None
           /\ g.config.external_encodings <=> g.mout_encoding # None
           /\ \A S \in RoundStates :
                  /\ (IF g.config.external_encodings
                      THEN Affine256_apply(g.mout_encoding,
                                           WbRound(g.instance.rounds[9], S))
                      ELSE WbRound(g.instance.rounds[9], S)) = C27_LastRound(S)
                  /\ WbOutput(g.instance, WbRound(g.instance.rounds[9], S))
                         = WbRound(g.instance.rounds[9], S)

C27_Witness ==
    /\ g.pc = "done"
    /\ g.config.external_encodings
    /\ g.instance.encodings.output = None
    /\ g.mout_encoding # None
    /\ g.mout_encoding.lin # Matrix256_identity
    /\ WbRound(g.instance.rounds[9], Plaintext(0)) # C27_LastRound(Plaintext(0))

\* One round of the evaluation as C28 has it: S' from zero, entry
\* (S[i], S[(i + 1) mod 32]) of table i XORed in for i = 0..31, all read from S.
C28_Round(round_tables, S) ==
    FoldRange(LAMBDA acc, i :
                  XorBytes(acc, Table16x256_get(round_tables.tables[i],
                                                S[i], S[(i + 1) % 32]), 32),
              Zeros(32), 0, 32)

\* The step thread t takes from w to v on the instance.
C28_Step(instance, w, v) ==
    CASE w.pc = "idle"   -> /\ v.pc = "rounds"
                            /\ v.r = 0
                            /\ v.block = Affine256_apply(instance.encodings.input, v.input)
      [] w.pc = "rounds" -> /\ v.r = w.r + 1
                            /\ v.pc = (IF v.r = 10 THEN "output" ELSE "rounds")
                            /\ v.block = C28_Round(instance.rounds[w.r], w.block)
      [] w.pc = "output" -> /\ w.r = 10
                            /\ v.pc = "done"
                            /\ v.block = (IF instance.encodings.output = None THEN w.block
                                          ELSE Affine256_apply(instance.encodings.output,
                                                               w.block))
      [] OTHER -> FALSE

C29_BlockRow(blocks, x, I) ==
    FoldRange(LAMBDA acc, J : Xor8(acc, Matrix8_apply(blocks[I][J], x[J])), 0, 0, 32)

\* The two terms build_round decodes the state with.
C29_TwoBlocks(blocks, x, I) ==
    Xor8(Matrix8_apply(blocks[I][I], x[I]),
         Matrix8_apply(blocks[I][IF I = 31 THEN 0 ELSE I + 1],
                       x[IF I = 31 THEN 0 ELSE I + 1]))

\* Every block outside the band of random_sparse_unsplit is zero.
C29_Banded(blocks) ==
    \A I \in 0..31 : \A J \in 0..31 :
        ~C14_Allowed(I, J) => blocks[I][J] = Matrix8_zero

\* C29: byte I of apply_to_bytes(x) is the XOR over J of block(I, J) applied
\* to x[J]; for a banded matrix it is block(I, I) applied to x[I] XOR
\* block(I, (I + 1) mod 32) applied to x[(I + 1) mod 32].
C29_BlocksAgreeWithApply ==
    (alg.op = "Matrix256::block" /\ alg.pc = "done")
        => \A I \in 0..31 :
               /\ alg.out.applied[I] = C29_BlockRow(alg.out.blocks, alg.in.x, I)
               /\ C29_Banded(alg.out.blocks)
                      => alg.out.applied[I] = C29_TwoBlocks(alg.out.blocks, alg.in.x, I)

C29_Witness ==
    /\ alg.op = "Matrix256::block"
    /\ alg.pc = "done"
    /\ alg.k[1][1] = "sampled"
    /\ alg.in.x = Plaintext(0)
    /\ C29_Banded(alg.out.blocks)
    /\ alg.out.blocks[31][0] # Matrix8_zero
    /\ alg.out.applied # alg.in.x

\* C30: a.mul(b) applied to a vector is a applied to b applied to it: every
\* byte for Matrix8; zero, the basis vectors and the plaintexts for Matrix256.
C30_MulIsComposition ==
    /\ (alg.op = "Matrix8::mul" /\ alg.pc = "done")
           => \A v \in Byte :
                  Matrix8_apply(alg.out, v)
                      = Matrix8_apply(alg.in.a, Matrix8_apply(alg.in.b, v))
    /\ (alg.op = "Matrix256::mul" /\ alg.pc = "done")
           => \A k \in VectorInputs :
                  Matrix256_apply_to_bytes(alg.out, VectorInput(k))
                      = Matrix256_apply_to_bytes(alg.in.a,
                            Matrix256_apply_to_bytes(alg.in.b, VectorInput(k)))

C30_Witness ==
    /\ alg.op = "Matrix256::mul"
    /\ alg.pc = "done"
    /\ alg.k[1][1] = "sampled"
    /\ alg.k[2][1] = "mc_sr"
    /\ alg.out # alg.in.a
    /\ alg.out # alg.in.b
    /\ Matrix256_apply_to_bytes(alg.out, Plaintext(0))
           # Matrix256_apply_to_bytes(alg.in.b,
                 Matrix256_apply_to_bytes(alg.in.a, Plaintext(0)))
====
